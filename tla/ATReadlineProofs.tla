-------------------------- MODULE ATReadlineProofs --------------------------
(***************************************************************************)
(* Proofs about the framing of lines by readline(), for every size of the  *)
(* buffer, every stream and every way read() cuts it into chunks.          *)
(*                                                                         *)
(* The invariant is stated of a buffer b, the characters received st, a    *)
(* cursor i, the end of the data p, the lines returned ls and the bytes    *)
(* ditched dr, because one call of readline() passes through several such  *)
(* views of the same buffer: after read(), after skipping newlines, after  *)
(* cutting off a line or moving the rest to the front.  Each of these has  *)
(* a lemma, and an action composes them.                                   *)
(***************************************************************************)
EXTENDS ATReadline, SequenceTheorems, WellFoundedInduction, TLAPS

Got(ls) == UNION {Positions(ls[k]) : k \in DOMAIN ls}
Held(b, i, p) == {b[j] : j \in i .. (p - 1)}

Typed(b, st, i, p, ls, dr) ==
  /\ b \in [Indices -> 0 .. Len(st)] /\ b[MaxResponse] = 0
  /\ st \in Seq(Alphabet)
  /\ i \in 0 .. (MaxResponse + 1) /\ p \in Indices
  /\ ls \in Seq(Seq(1 .. Len(st)))
  /\ dr \subseteq 1 .. Len(st)

\* The data has no '\0' in it.
Data(b, i, p) == \A j \in i .. (p - 1) : b[j] # 0

\* No byte disappears.
Covers(b, st, i, p, ls, dr) ==
  \A x \in DOMAIN st : st[x] # "eol" => x \in Got(ls) \cup Held(b, i, p) \cup dr

\* no prompt was returned
Plain(st, ls) ==
  \A m \in DOMAIN ls : [k \in DOMAIN ls[m] |-> st[ls[m][k]]] # <<">", "sp">>

\* The data is the last part of what was received, up to a '\0'.
Newest(b, st, i, p) ==
  /\ i <= p /\ b[p] = 0
  /\ \A j \in i .. (p - 1) : b[j] + p = Len(st) + 1 + j

\* What was returned or ditched came before the data.
Before(st, i, p, ls, dr) ==
  \A x \in Got(ls) \cup dr : x + p <= Len(st) + i

\* The data begins where a line may begin.
Edge(st, i, p, dr) ==
  \A x \in Nat : x > 0 /\ x + p = Len(st) + i => st[x] = "eol" \/ x \in dr

InOrder(ls) ==
  \A k, m \in DOMAIN ls :
    \A x \in Positions(ls[k]), y \in Positions(ls[m]) : k < m => x < y

\* A line stands between two terminators.
Line(ln, st, dr) ==
  /\ ln # <<>>
  /\ \A k \in DOMAIN ln : ln[k] = ln[1] + k - 1 /\ st[ln[k]] # "eol"
  /\ ln[Len(ln)] + 1 \in DOMAIN st /\ st[ln[Len(ln)] + 1] = "eol"
  /\ ln[1] > 1 => st[ln[1] - 1] = "eol" \/ ln[1] - 1 \in dr

Tidy(b, st, i, p, ls, dr) ==
  /\ Newest(b, st, i, p) /\ Before(st, i, p, ls, dr) /\ Edge(st, i, p, dr)
  /\ InOrder(ls) /\ Got(ls) \cap dr = {}
  /\ \A m \in DOMAIN ls : Line(ls[m], st, dr)

Whole(b, st, i, p, ls, dr) ==
  /\ Typed(b, st, i, p, ls, dr) /\ Data(b, i, p) /\ Covers(b, st, i, p, ls, dr)
  /\ Plain(st, ls) => Tidy(b, st, i, p, ls, dr)

ReadInv ==
  /\ Whole(buf, stream, cur, pread, lines, dropped)
  /\ pc \in {"call", "read", "eof"} /\ starts \in Seq(Nat)
  /\ pc \in {"read", "eof"} => cur <= pread /\ buf[pread] = 0
  /\ NoLineHeldBack
-----------------------------------------------------------------------------
(* The searches in the buffer                                              *)

\* Every non-empty set of natural numbers has a least element.
LEMMA LeastNat ==
  ASSUME NEW S \in SUBSET Nat, S # {}
  PROVE  Min(S) \in S /\ \A y \in S : Min(S) <= y
<1> DEFINE R == OpToRel(<, Nat)
<1>1. \E x \in S : \A y \in S : ~(<<y, x>> \in R)
  BY NatLessThanWellFounded, WFMin
<1>2. \A x, y \in Nat : y < x => <<y, x>> \in R
  BY DEF OpToRel
<1> HIDE DEF R
<1>3. \E x \in S : \A y \in S : x <= y
  <2>1. PICK x \in S : \A y \in S : ~(<<y, x>> \in R)
    BY <1>1
  <2>2. ASSUME NEW y \in S PROVE x <= y
    <3>1. x \in Nat /\ y \in Nat
      OBVIOUS
    <3>2. ~(y < x)
      BY <1>2, <2>1, <3>1
    <3> QED
      BY <3>1, <3>2
  <2> QED
    BY <2>2
<1> QED
  BY <1>3 DEF Min

\* What is known of the characters in a buffer.
LEMMA CharFacts ==
  ASSUME NEW b, NEW st, NEW i, NEW p, NEW ls, NEW dr, Typed(b, st, i, p, ls, dr)
  PROVE  /\ MaxResponse \in Nat /\ MaxResponse >= 1 /\ Len(st) \in Nat
         /\ DOMAIN st = 1 .. Len(st)
         /\ \A j \in Indices : /\ b[j] \in 0 .. Len(st)
                               /\ Char(b, st, j) = "nul" <=> b[j] = 0
                               /\ Char(b, st, j) # "nul" => Char(b, st, j) = st[b[j]]
<1>1. MaxResponse \in Nat /\ MaxResponse >= 1 /\ Alphabet \subseteq {"a", "eol", ">", "sp"}
  BY ReadlineAssumption
<1>2. /\ st \in Seq(Alphabet) /\ Len(st) \in Nat /\ DOMAIN st = 1 .. Len(st)
      /\ \A x \in 1 .. Len(st) : st[x] \in Alphabet
  BY DEF Typed
<1>3. \A x \in 1 .. Len(st) : st[x] # "nul"
  BY <1>1, <1>2
<1>4. \A j \in Indices : b[j] \in 0 .. Len(st)
  BY DEF Typed
<1> QED
  BY <1>1, <1>2, <1>3, <1>4 DEF Char

\* Skipping newlines ends at the first character that is none.
LEMMA SkipFacts ==
  ASSUME NEW b, NEW st, NEW i \in Indices, NEW p, NEW ls, NEW dr,
         Typed(b, st, i, p, ls, dr)
  PROVE  LET c == SkipNewlines(b, st, i) IN
         /\ c \in i .. MaxResponse /\ c \in Indices /\ Char(b, st, c) # "eol"
         /\ \A j \in i .. (c - 1) : Char(b, st, j) = "eol"
<1> DEFINE S == {j \in i .. MaxResponse : Char(b, st, j) # "eol"}
<1>1. MaxResponse \in Nat /\ i \in Nat /\ i <= MaxResponse /\ MaxResponse \in Indices
  BY CharFacts DEF Indices
<1>2. Char(b, st, MaxResponse) = "nul"
  BY <1>1, CharFacts DEF Typed
<1>3. S \in SUBSET Nat /\ MaxResponse \in S
  BY <1>1, <1>2
<1>4. Min(S) \in S /\ \A y \in S : Min(S) <= y
  BY <1>3, LeastNat
<1>5. SkipNewlines(b, st, i) = Min(S)
  BY DEF SkipNewlines
<1> QED
  BY <1>1, <1>4, <1>5 DEF Indices

\* What findNextEOL() finds from c on.
LEMMA EOLFacts ==
  ASSUME NEW b, NEW st, NEW c \in Indices, NEW p, NEW ls, NEW dr,
         Typed(b, st, c, p, ls, dr), Char(b, st, c) # "eol"
  PROVE  LET e == findNextEOL(b, st, c) IN
         \/ /\ e = NULL /\ ~IsPrompt(b, st, c)
            /\ \E z \in c .. MaxResponse :
                 b[z] = 0 /\ \A j \in c .. (z - 1) : Char(b, st, j) \notin {"nul", "eol"}
         \/ /\ e # NULL /\ IsPrompt(b, st, c) /\ e = c + 2 /\ e \in Indices
         \/ /\ e # NULL /\ ~IsPrompt(b, st, c) /\ e \in c + 1 .. MaxResponse /\ e \in Indices
            /\ Char(b, st, e) = "eol"
            /\ \A j \in c .. (e - 1) : Char(b, st, j) \notin {"nul", "eol"}
<1> DEFINE S == {j \in c .. MaxResponse : Char(b, st, j) \in {"nul", "eol"}}
           s == Min(S)
           e == findNextEOL(b, st, c)
<1>1. MaxResponse \in Nat /\ c \in Nat /\ c <= MaxResponse /\ MaxResponse \in Indices
  BY CharFacts DEF Indices
<1>2. Char(b, st, MaxResponse) = "nul"
  BY <1>1, CharFacts DEF Typed
<1>3. S \in SUBSET Nat /\ MaxResponse \in S
  BY <1>1, <1>2
<1>4. s \in S /\ \A y \in S : s <= y
  BY <1>3, LeastNat
<1>5. /\ s \in c .. MaxResponse /\ s \in Indices /\ Char(b, st, s) \in {"nul", "eol"}
      /\ \A j \in c .. (s - 1) : Char(b, st, j) \notin {"nul", "eol"}
  BY <1>1, <1>4 DEF Indices
<1> HIDE DEF s, S
<1>6. e = CASE IsPrompt(b, st, c) -> c + 2
            [] ~IsPrompt(b, st, c) /\ Char(b, st, s) = "eol" -> s
            [] OTHER -> NULL
  BY DEF findNextEOL, s, S
<1> HIDE DEF e
<1>7. CASE IsPrompt(b, st, c)
  <2>1. e = c + 2
    BY <1>6, <1>7
  <2>2. c + 2 <= MaxResponse
    BY <1>7 DEF IsPrompt
  <2> QED
    BY <1>1, <1>7, <2>1, <2>2 DEF e, NULL, Indices
<1>8. CASE ~IsPrompt(b, st, c) /\ Char(b, st, s) = "eol"
  <2>1. e = s
    BY <1>6, <1>8
  <2>2. s # c
    BY <1>8
  <2> QED
    BY <1>1, <1>5, <1>8, <2>1, <2>2 DEF e, NULL, Indices
<1>9. CASE ~IsPrompt(b, st, c) /\ Char(b, st, s) # "eol"
  <2>1. e = NULL
    BY <1>6, <1>9
  <2>2. b[s] = 0
    BY <1>5, <1>9, CharFacts
  <2> QED
    BY <1>5, <1>9, <2>1, <2>2 DEF e
<1> QED
  BY <1>7, <1>8, <1>9

\* strlen() ends at the first '\0'.
LEMMA StrlenFacts ==
  ASSUME NEW b, NEW st, NEW c \in Indices, NEW p, NEW ls, NEW dr,
         Typed(b, st, c, p, ls, dr)
  PROVE  LET n == Strlen(b, c) IN
         /\ n \in Nat /\ n \in Indices /\ c + n \in Indices /\ b[c + n] = 0
         /\ \A j \in c .. (c + n - 1) : b[j] # 0
<1> DEFINE S == {j \in c .. MaxResponse : b[j] = 0}
           s == Min(S)
<1>1. MaxResponse \in Nat /\ c \in Nat /\ c <= MaxResponse
  BY CharFacts DEF Indices
<1>2. S \in SUBSET Nat /\ MaxResponse \in S
  BY <1>1 DEF Typed
<1>3. s \in S /\ \A y \in S : s <= y
  BY <1>2, LeastNat
<1>4. s \in c .. MaxResponse /\ b[s] = 0 /\ \A j \in c .. (s - 1) : b[j] # 0
  BY <1>1, <1>3
<1> HIDE DEF s, S
<1>5. Strlen(b, c) = s - c
  BY DEF Strlen, s, S
<1>6. c + (s - c) = s
  BY <1>1, <1>4
<1> QED
  BY <1>1, <1>4, <1>5, <1>6 DEF Indices
-----------------------------------------------------------------------------
(* The views that one call of readline() passes through                    *)

\* The bytes held, one by one.
LEMMA HeldFacts ==
  ASSUME NEW b, NEW i, NEW p
  PROVE  /\ \A j \in i .. (p - 1) : b[j] \in Held(b, i, p)
         /\ \A x \in Held(b, i, p) : \E j \in i .. (p - 1) : x = b[j]
BY DEF Held

\* The positions in the lines returned.
LEMMA GotFacts ==
  ASSUME NEW n \in Nat, NEW ls \in Seq(Seq(1 .. n))
  PROVE  /\ Got(ls) \subseteq 1 .. n
         /\ \A m \in DOMAIN ls : /\ ls[m] \in Seq(1 .. n)
                                 /\ DOMAIN ls[m] = 1 .. Len(ls[m]) /\ Len(ls[m]) \in Nat
                                 /\ \A k \in DOMAIN ls[m] : ls[m][k] \in 1 .. n
                                 /\ Positions(ls[m]) \subseteq 1 .. n
                                 /\ Positions(ls[m]) \subseteq Got(ls)
<1>1. \A m \in DOMAIN ls : ls[m] \in Seq(1 .. n)
  OBVIOUS
<1>2. \A m \in DOMAIN ls : /\ DOMAIN ls[m] = 1 .. Len(ls[m]) /\ Len(ls[m]) \in Nat
                           /\ \A k \in DOMAIN ls[m] : ls[m][k] \in 1 .. n
  BY <1>1
<1>3. \A m \in DOMAIN ls : Positions(ls[m]) \subseteq 1 .. n
  BY <1>2 DEF Positions
<1> QED
  BY <1>1, <1>2, <1>3 DEF Got

\* read() adds to what was received and leaves the rest of it alone.
LEMMA Growing ==
  ASSUME NEW s \in Seq(Alphabet), NEW t \in Seq(Alphabet), NEW ls \in Seq(Seq(1 .. Len(s))),
         NEW dr
  PROVE  /\ s \o t \in Seq(Alphabet) /\ Len(s \o t) = Len(s) + Len(t)
         /\ \A x \in 1 .. Len(s) : (s \o t)[x] = s[x]
         /\ Plain(s \o t, ls) => Plain(s, ls)
         /\ (\A m \in DOMAIN ls : Line(ls[m], s, dr))
              => \A m \in DOMAIN ls : Line(ls[m], s \o t, dr)
<1> DEFINE u == s \o t
<1>1. /\ u \in Seq(Alphabet) /\ Len(u) = Len(s) + Len(t)
      /\ Len(s) \in Nat /\ Len(t) \in Nat
      /\ DOMAIN s = 1 .. Len(s) /\ DOMAIN u = 1 .. Len(s) + Len(t)
      /\ \A x \in 1 .. Len(s) : u[x] = s[x]
  BY ConcatProperties
<1> HIDE DEF u
<1>2. \A m \in DOMAIN ls : /\ DOMAIN ls[m] = 1 .. Len(ls[m]) /\ Len(ls[m]) \in Nat
                           /\ \A k \in DOMAIN ls[m] : ls[m][k] \in 1 .. Len(s)
  BY <1>1, GotFacts
<1>3. \A m \in DOMAIN ls : [k \in DOMAIN ls[m] |-> u[ls[m][k]]] = [k \in DOMAIN ls[m] |-> s[ls[m][k]]]
  BY <1>1, <1>2
<1>4. Plain(u, ls) => Plain(s, ls)
  BY <1>3 DEF Plain
<1>5. ASSUME NEW m \in DOMAIN ls, Line(ls[m], s, dr) PROVE Line(ls[m], u, dr)
  <2> DEFINE ln == ls[m]
  <2>0. ln \in Seq(1 .. Len(s))
    OBVIOUS
  <2>1. /\ ln # <<>> /\ ln \in Seq(1 .. Len(s)) /\ 1 \in DOMAIN ln
        /\ \A k \in DOMAIN ln : ln[k] \in 1 .. Len(s)
    BY <1>2, <1>5, <2>0 DEF Line
  <2>2. \A k \in DOMAIN ln : ln[k] = ln[1] + k - 1 /\ u[ln[k]] # "eol"
    BY <1>1, <1>5, <2>1 DEF Line
  <2>3. ln[Len(ln)] + 1 \in DOMAIN u /\ u[ln[Len(ln)] + 1] = "eol"
    BY <1>1, <1>5, SMTT(40) DEF Line
  <2>4. ln[1] > 1 => u[ln[1] - 1] = "eol" \/ ln[1] - 1 \in dr
    <3>1. ln[1] \in 1 .. Len(s)
      BY <2>1
    <3>2. ln[1] > 1 => ln[1] - 1 \in 1 .. Len(s)
      <4>1. Len(s) \in Nat
        BY <1>1
      <4>2. \A x \in 1 .. Len(s) : x > 1 => x - 1 \in 1 .. Len(s)
        BY <4>1
      <4> QED
        BY <3>1, <4>2
    <3> QED
      BY <1>1, <1>5, <3>2 DEF Line
  <2> QED
    BY <2>1, <2>2, <2>3, <2>4 DEF Line
<1> QED
  BY <1>1, <1>4, <1>5 DEF u

\* the buffer d after n bytes were read behind the data of b
Filled(b, len, p, n) ==
  [j \in Indices |->
     CASE j \in p .. (p + n - 1) -> len + 1 + j - p
       [] j = p + n -> 0
       [] OTHER -> b[j]]

IsFilled(d, b, len, p, q) ==
  /\ d = [j \in Indices |-> d[j]]
  /\ \A j \in p .. (q - 1) : d[j] = len + 1 + j - p
  /\ \A j \in Indices : j \notin p .. q => d[j] = b[j]
  /\ d[q] = 0

\* What is where after a read.
LEMMA FilledFacts ==
  ASSUME NEW b, NEW len \in Nat, NEW p \in Nat, NEW n \in Nat, n >= 1,
         p + n <= MaxResponse, MaxResponse \in Nat
  PROVE  IsFilled(Filled(b, len, p, n), b, len, p, p + n)
<1> DEFINE d == Filled(b, len, p, n)
<1>1. \A j \in Indices : d[j] = CASE j \in p .. (p + n - 1) -> len + 1 + j - p
                                  [] j = p + n -> 0
                                  [] OTHER -> b[j]
  BY DEF Filled
<1>2. d = [j \in Indices |-> d[j]]
  BY DEF Filled
<1> HIDE DEF d
<1>3. /\ \A j \in p .. (p + n - 1) : j # p + n /\ j \in Indices
      /\ \A j \in Indices : j \notin p .. (p + n) => j \notin p .. (p + n - 1) /\ j # p + n
      /\ p + n \notin p .. (p + n - 1) /\ p + n \in Indices
  BY DEF Indices
<1>7. p .. (p + n - 1) = p .. ((p + n) - 1)
  OBVIOUS
<1>4. \A j \in p .. (p + n - 1) : d[j] = len + 1 + j - p
  BY <1>1, <1>3
<1>5. \A j \in Indices : j \notin p .. (p + n) => d[j] = b[j]
  BY <1>1, <1>3
<1>6. d[p + n] = 0
  BY <1>1, <1>3
<1> QED
  BY <1>2, <1>4, <1>5, <1>6, <1>7 DEF d, IsFilled

\* read() puts a chunk behind the data.
LEMMA ReadView ==
  ASSUME NEW b, NEW s, NEW i, NEW p, NEW ls, NEW dr, Whole(b, s, i, p, ls, dr), i <= p,
         NEW n \in Nat, n >= 1, NEW q \in Nat, q = p + n, q <= MaxResponse, NEW chunk \in [1 .. n -> Alphabet]
  PROVE  /\ Whole(Filled(b, Len(s), p, n), s \o chunk, i, q, ls, dr)
         /\ Filled(b, Len(s), p, n)[q] = 0
<1> DEFINE t == s \o chunk
           d == Filled(b, Len(s), p, n)
<1>0. /\ Typed(b, s, i, p, ls, dr) /\ Data(b, i, p) /\ Covers(b, s, i, p, ls, dr)
      /\ Plain(s, ls) => Tidy(b, s, i, p, ls, dr)
  BY DEF Whole
<1>1. /\ MaxResponse \in Nat /\ Len(s) \in Nat /\ DOMAIN s = 1 .. Len(s)
      /\ \A j \in Indices : b[j] \in 0 .. Len(s)
  BY <1>0, CharFacts
<1>2. /\ i \in Nat /\ p \in Nat /\ q = p + n /\ p < MaxResponse /\ p \in Indices /\ q \in Indices
      /\ b \in [Indices -> 0 .. Len(s)] /\ s \in Seq(Alphabet)
      /\ ls \in Seq(Seq(1 .. Len(s))) /\ dr \subseteq 1 .. Len(s)
  BY <1>0, <1>1 DEF Typed, Indices
<1>n. Len(s) \in Nat /\ i \in Nat /\ p \in Nat /\ q = p + n
  BY <1>1, <1>2
<1>3. chunk \in Seq(Alphabet) /\ Len(chunk) = n
  BY <1>2
<1>4. /\ t \in Seq(Alphabet) /\ Len(t) = Len(s) + n /\ DOMAIN t = 1 .. Len(s) + n
      /\ \A x \in 1 .. Len(s) : t[x] = s[x]
      /\ Plain(t, ls) => Plain(s, ls)
      /\ (\A m \in DOMAIN ls : Line(ls[m], s, dr)) => \A m \in DOMAIN ls : Line(ls[m], t, dr)
  <2>1. /\ t \in Seq(Alphabet) /\ Len(t) = Len(s) + Len(chunk)
        /\ \A x \in 1 .. Len(s) : t[x] = s[x]
        /\ Plain(t, ls) => Plain(s, ls)
        /\ (\A m \in DOMAIN ls : Line(ls[m], s, dr)) => \A m \in DOMAIN ls : Line(ls[m], t, dr)
    BY <1>2, <1>3, Growing
  <2> HIDE DEF t
  <2>2. DOMAIN t = 1 .. Len(t)
    BY <2>1
  <2> QED
    BY <1>3, <2>1, <2>2
<1> HIDE DEF t
<1>f. IsFilled(d, b, Len(s), p, q)
  BY <1>1, <1>2, FilledFacts
<1> HIDE DEF d
<1>5. /\ d = [j \in Indices |-> d[j]]
      /\ \A j \in p .. (q - 1) : d[j] = Len(s) + 1 + j - p
      /\ \A j \in Indices : j \notin p .. q => d[j] = b[j]
      /\ d[q] = 0
  BY <1>f DEF IsFilled
<1>6. \A j \in i .. (q - 1) : j \in Indices /\ (j \in i .. (p - 1) \/ j \in p .. (q - 1))
  BY <1>1, <1>2 DEF Indices
<1>7. \A j \in i .. (p - 1) : j \in Indices /\ j \in i .. (q - 1) /\ d[j] = b[j]
  <2>1. \A j \in i .. (p - 1) : j \in Indices /\ j \in i .. (q - 1) /\ j \notin p .. q
    BY <1>1, <1>2 DEF Indices
  <2> QED
    BY <1>5, <2>1
<1>8. Typed(d, t, i, q, ls, dr)
  <2>1. \A j \in Indices : d[j] \in 0 .. Len(s) + n
    <3> SUFFICES ASSUME NEW j \in Indices PROVE d[j] \in 0 .. Len(s) + n
      OBVIOUS
    <3>1. CASE j \in p .. (q - 1)
      <4>1. Len(s) + 1 + j - p \in 0 .. Len(s) + n
        BY <1>1, <1>2, <3>1
      <4> QED
        BY <1>5, <3>1, <4>1
    <3>2. CASE j = q
      BY <1>1, <1>2, <1>5, <3>2
    <3>3. CASE j \notin p .. q
      BY <1>1, <1>2, <1>5, <3>3
    <3> QED
      BY <1>1, <1>2, <3>1, <3>2, <3>3 DEF Indices
  <2>2. d \in [Indices -> 0 .. Len(t)]
    BY <1>4, <1>5, <2>1
  <2>3. d[MaxResponse] = 0
    <3>1. CASE MaxResponse = q
      BY <1>5, <3>1
    <3>2. CASE MaxResponse # q
      <4>1. MaxResponse \in Indices /\ MaxResponse \notin p .. q
        BY <1>1, <1>2, <3>2 DEF Indices
      <4> QED
        BY <1>0, <1>5, <4>1 DEF Typed
    <3> QED
      BY <3>1, <3>2
  <2>4. ls \in Seq(Seq(1 .. Len(t)))
    <3>1. 1 .. Len(s) \subseteq 1 .. Len(t)
      BY <1>1, <1>2, <1>4
    <3>2. \A w \in Seq(1 .. Len(s)) : w \in Seq(1 .. Len(t))
      BY <3>1, SeqMonotonic
    <3> QED
      BY <1>2, <3>2, SeqMonotonic
  <2>5. dr \subseteq 1 .. Len(t)
    BY <1>1, <1>2, <1>4
  <2> QED
    BY <1>0, <1>2, <1>4, <2>2, <2>3, <2>4, <2>5 DEF Typed
<1>9. Data(d, i, q)
  <2>1. \A j \in p .. (q - 1) : Len(s) + 1 + j - p # 0
    BY <1>1, <1>2
  <2>2. \A j \in p .. (q - 1) : d[j] # 0
    BY <1>5, <2>1
  <2>3. \A j \in i .. (p - 1) : d[j] # 0
    BY <1>0, <1>7 DEF Data
  <2> QED
    BY <1>6, <2>2, <2>3 DEF Data
<1>10. Covers(d, t, i, q, ls, dr)
  <2> SUFFICES ASSUME NEW x \in 1 .. Len(s) + n, t[x] # "eol"
               PROVE  x \in Got(ls) \cup Held(d, i, q) \cup dr
    BY <1>4 DEF Covers
  <2>1. CASE x \in 1 .. Len(s)
    <3>1. x \in Got(ls) \cup Held(b, i, p) \cup dr
      BY <1>0, <1>1, <1>4, <2>1 DEF Covers
    <3>2. ASSUME NEW y \in Held(b, i, p) PROVE y \in Held(d, i, q)
      <4>1. PICK j \in i .. (p - 1) : y = b[j]
        BY HeldFacts
      <4>2. j \in i .. (q - 1) /\ y = d[j]
        BY <1>7, <4>1
      <4> QED
        BY <4>2, HeldFacts
    <3> QED
      BY <3>1, <3>2
  <2>2. CASE x \notin 1 .. Len(s)
    <3> DEFINE j == x - Len(s) - 1 + p
    <3>1. /\ j \in p .. (q - 1) /\ j \in i .. (q - 1) /\ j \in Indices
          /\ Len(s) + 1 + j - p = x
      BY <1>1, <1>2, <2>2 DEF Indices
    <3> HIDE DEF j
    <3>2. d[j] = x
      BY <1>5, <3>1
    <3> QED
      BY <3>1, <3>2, HeldFacts
  <2> QED
    BY <2>1, <2>2
<1>11. ASSUME Plain(t, ls) PROVE Tidy(d, t, i, q, ls, dr)
  <2>1. Tidy(b, s, i, p, ls, dr)
    BY <1>0, <1>4, <1>11
  <2>2. Newest(d, t, i, q)
    <3>1. \A j \in i .. (q - 1) : d[j] + q = Len(s) + n + 1 + j
      <4> SUFFICES ASSUME NEW j \in i .. (q - 1) PROVE d[j] + q = Len(s) + n + 1 + j
        OBVIOUS
      <4>1. CASE j \in i .. (p - 1)
        <5>1. b[j] + p = Len(s) + 1 + j /\ d[j] = b[j] /\ b[j] \in Nat /\ j \in Nat
          BY <1>1, <1>7, <2>1, <4>1, <1>2 DEF Tidy, Newest
        <5> QED
          BY <1>n, <5>1
      <4>2. CASE j \in p .. (q - 1)
        <5>1. d[j] = Len(s) + 1 + j - p
          BY <1>5, <1>6, <4>2
        <5> QED
          BY <1>1, <1>2, <4>2, <5>1
      <4> QED
        BY <1>6, <4>1, <4>2
    <3>2. i <= q
      BY <1>2
    <3> QED
      BY <1>4, <1>5, <3>1, <3>2 DEF Newest
  <2>3. Before(t, i, q, ls, dr)
    <3>1. Got(ls) \subseteq 1 .. Len(s)
      BY <1>1, <1>2, GotFacts
    <3>2. \A x \in Got(ls) \cup dr : x \in 1 .. Len(s)
      BY <1>2, <3>1
    <3>3. \A x \in Got(ls) \cup dr : x + p <= Len(s) + i
      BY <2>1 DEF Tidy, Before
    <3>4. \A x \in Got(ls) \cup dr : x + q <= Len(s) + n + i
      BY <1>n, <3>2, <3>3
    <3> QED
      BY <1>4, <3>4 DEF Before
  <2>4. Edge(t, i, q, dr)
    <3> SUFFICES ASSUME NEW x \in Nat, x > 0, x + q = Len(s) + n + i
                 PROVE  t[x] = "eol" \/ x \in dr
      BY <1>4 DEF Edge
    <3>1. x + p = Len(s) + i /\ x \in 1 .. Len(s)
      BY <1>n
    <3>2. s[x] = "eol" \/ x \in dr
      BY <2>1, <3>1 DEF Tidy, Edge
    <3> QED
      BY <1>4, <3>1, <3>2
  <2> QED
    BY <1>4, <2>1, <2>2, <2>3, <2>4 DEF Tidy
<1> QED
  BY <1>5, <1>8, <1>9, <1>10, <1>11 DEF Whole, t, d

\* Leading newlines are skipped.
LEMMA SkipView ==
  ASSUME NEW b, NEW st, NEW i \in Indices, NEW p, NEW ls, NEW dr, Whole(b, st, i, p, ls, dr),
         NEW c, c = SkipNewlines(b, st, i)
  PROVE  /\ Whole(b, st, c, p, ls, dr) /\ c \in Indices /\ Char(b, st, c) # "eol"
         /\ i <= p /\ b[p] = 0 => c <= p
<1>0. /\ Typed(b, st, i, p, ls, dr) /\ Data(b, i, p) /\ Covers(b, st, i, p, ls, dr)
      /\ Plain(st, ls) => Tidy(b, st, i, p, ls, dr)
  BY DEF Whole
<1>1. /\ MaxResponse \in Nat /\ Len(st) \in Nat /\ DOMAIN st = 1 .. Len(st)
      /\ \A j \in Indices : /\ b[j] \in 0 .. Len(st)
                            /\ Char(b, st, j) = "nul" <=> b[j] = 0
                            /\ Char(b, st, j) # "nul" => Char(b, st, j) = st[b[j]]
  BY <1>0, CharFacts
<1>2. /\ c \in i .. MaxResponse /\ c \in Indices /\ Char(b, st, c) # "eol"
      /\ \A j \in i .. (c - 1) : Char(b, st, j) = "eol"
  BY <1>0, SkipFacts
<1>3. /\ i \in Nat /\ c \in Nat /\ i <= c /\ p \in Nat /\ p \in Indices
  BY <1>0, <1>1, <1>2 DEF Typed, Indices
<1>4. \A j \in i .. (c - 1) : j \in Indices /\ b[j] # 0 /\ st[b[j]] = "eol"
  <2>1. \A j \in i .. (c - 1) : j \in Indices
    BY <1>1, <1>2, <1>3 DEF Indices
  <2> QED
    BY <1>1, <1>2, <2>1
<1>5. i <= p /\ b[p] = 0 => c <= p
  <2> SUFFICES ASSUME i <= p, b[p] = 0, ~(c <= p) PROVE FALSE
    OBVIOUS
  <2>1. p \in i .. (c - 1)
    BY <1>3
  <2> QED
    BY <1>4, <2>1
<1>6. Typed(b, st, c, p, ls, dr)
  BY <1>0, <1>1, <1>2, <1>3 DEF Typed
<1>7. \A j \in c .. (p - 1) : j \in i .. (p - 1)
  BY <1>3
<1>8. Data(b, c, p)
  BY <1>0, <1>7 DEF Data
<1>9. Covers(b, st, c, p, ls, dr)
  <2> SUFFICES ASSUME NEW x \in DOMAIN st, st[x] # "eol", x \in Held(b, i, p)
               PROVE  x \in Held(b, c, p)
    BY <1>0 DEF Covers
  <2>1. PICK j \in i .. (p - 1) : x = b[j]
    BY HeldFacts
  <2>2. j \notin i .. (c - 1)
    BY <1>4, <2>1
  <2>3. j \in c .. (p - 1)
    BY <1>3, <2>2
  <2> QED
    BY <2>1, <2>3, HeldFacts
<1>10. ASSUME Plain(st, ls) PROVE Tidy(b, st, c, p, ls, dr)
  <2>1. Tidy(b, st, i, p, ls, dr)
    BY <1>0, <1>10
  <2>2. i <= p /\ b[p] = 0 /\ \A j \in i .. (p - 1) : b[j] + p = Len(st) + 1 + j
    BY <2>1 DEF Tidy, Newest
  <2>3. Newest(b, st, c, p)
    BY <1>5, <1>7, <2>2 DEF Newest
  <2>4. Before(st, c, p, ls, dr)
    <3>1. \A x \in Got(ls) \cup dr : x \in 1 .. Len(st)
      BY <1>0, <1>1, GotFacts DEF Typed
    <3>2. \A x \in Got(ls) \cup dr : x + p <= Len(st) + i
      BY <2>1 DEF Tidy, Before
    <3>3. \A x \in Got(ls) \cup dr : x + p <= Len(st) + c
      BY <1>1, <1>3, <3>1, <3>2
    <3> QED
      BY <3>3 DEF Before
  <2>5. Edge(st, c, p, dr)
    <3>1. CASE c = i
      BY <2>1, <3>1 DEF Tidy
    <3>2. CASE c # i
      <4> SUFFICES ASSUME NEW x \in Nat, x + p = Len(st) + c PROVE st[x] = "eol"
        BY DEF Edge
      <4>1. c - 1 \in i .. (c - 1) /\ c - 1 \in i .. (p - 1) /\ c - 1 \in Indices
        BY <1>1, <1>3, <1>2, <1>5, <2>2, <3>2 DEF Indices
      <4>2. b[c - 1] + p = Len(st) + 1 + (c - 1) /\ b[c - 1] \in Nat /\ st[b[c - 1]] = "eol"
        BY <1>1, <1>4, <2>2, <4>1
      <4>3. b[c - 1] = x
        BY <1>1, <1>3, <4>2
      <4> QED
        BY <4>2, <4>3
    <3> QED
      BY <3>1, <3>2
  <2> QED
    BY <2>1, <2>3, <2>4, <2>5 DEF Tidy
<1> QED
  BY <1>2, <1>5, <1>6, <1>8, <1>9, <1>10 DEF Whole

\* The buffer is used up and starts over.
LEMMA ClearView ==
  ASSUME NEW b, NEW st, NEW i \in Indices, NEW p, NEW ls, NEW dr, Whole(b, st, i, p, ls, dr),
         b[i] = 0
  PROVE  Whole([b EXCEPT ![0] = 0], st, 0, 0, ls, dr)
<1> DEFINE d == [b EXCEPT ![0] = 0]
<1>0. /\ Typed(b, st, i, p, ls, dr) /\ Data(b, i, p) /\ Covers(b, st, i, p, ls, dr)
      /\ Plain(st, ls) => Tidy(b, st, i, p, ls, dr)
  BY DEF Whole
<1>1. /\ MaxResponse \in Nat /\ Len(st) \in Nat /\ DOMAIN st = 1 .. Len(st)
      /\ 0 \in Indices /\ i \in Nat /\ p \in Nat
  <2>1. MaxResponse \in Nat /\ Len(st) \in Nat /\ DOMAIN st = 1 .. Len(st)
    BY <1>0, CharFacts
  <2>2. p \in Indices
    BY <1>0 DEF Typed
  <2>3. 0 \in Indices /\ i \in Nat /\ p \in Nat
    BY <2>1, <2>2 DEF Indices
  <2> QED
    BY <2>1, <2>3
<1>2. /\ d \in [Indices -> 0 .. Len(st)] /\ d[MaxResponse] = 0 /\ d[0] = 0
  BY <1>0, <1>1 DEF Typed
<1> HIDE DEF d
<1>3. i >= p
  <2> SUFFICES ASSUME ~(i >= p) PROVE FALSE
    OBVIOUS
  <2>1. i \in i .. (p - 1)
    BY <1>1
  <2> QED
    BY <1>0, <2>1 DEF Data
<1>4. i .. (p - 1) = {} /\ 0 .. (0 - 1) = {}
  BY <1>1, <1>3
<1>5. Typed(d, st, 0, 0, ls, dr)
  BY <1>0, <1>1, <1>2 DEF Typed
<1>6. Data(d, 0, 0)
  BY <1>4 DEF Data
<1>7. Covers(d, st, 0, 0, ls, dr)
  BY <1>0, <1>4 DEF Covers, Held
<1>8. ASSUME Plain(st, ls) PROVE Tidy(d, st, 0, 0, ls, dr)
  <2>1. Tidy(b, st, i, p, ls, dr)
    BY <1>0, <1>8
  <2>2. i = p
    BY <1>1, <1>3, <2>1 DEF Tidy, Newest
  <2>3. Newest(d, st, 0, 0)
    BY <1>2, <1>4 DEF Newest
  <2>4. Before(st, 0, 0, ls, dr)
    <3>1. \A x \in Got(ls) \cup dr : x \in 1 .. Len(st)
      BY <1>0, <1>1, GotFacts DEF Typed
    <3>2. \A x \in Got(ls) \cup dr : x + 0 <= Len(st) + 0
      BY <1>1, <3>1
    <3> QED
      BY <3>2 DEF Before
  <2>5. Edge(st, 0, 0, dr)
    <3>1. \A x \in Nat : x + 0 = Len(st) + 0 => x + p = Len(st) + i
      BY <1>1, <2>2
    <3> QED
      BY <2>1, <3>1 DEF Tidy, Edge
  <2> QED
    BY <2>1, <2>3, <2>4, <2>5 DEF Tidy
<1> QED
  BY <1>5, <1>6, <1>7, <1>8 DEF Whole, d

\* A full buffer without a line is ditched.
LEMMA DitchView ==
  ASSUME NEW b, NEW st, NEW i, NEW p, NEW ls, NEW dr, Whole(b, st, i, p, ls, dr)
  PROVE  Whole([b EXCEPT ![0] = 0], st, 0, 0, ls, dr \cup Held(b, i, p))
<1> DEFINE d == [b EXCEPT ![0] = 0]
           dd == dr \cup Held(b, i, p)
<1>0. /\ Typed(b, st, i, p, ls, dr) /\ Data(b, i, p) /\ Covers(b, st, i, p, ls, dr)
      /\ Plain(st, ls) => Tidy(b, st, i, p, ls, dr)
  BY DEF Whole
<1>1. /\ MaxResponse \in Nat /\ Len(st) \in Nat /\ DOMAIN st = 1 .. Len(st)
      /\ 0 \in Indices /\ i \in Nat /\ p \in Nat /\ p \in Indices
      /\ \A j \in Indices : b[j] \in 0 .. Len(st)
  <2>1. /\ MaxResponse \in Nat /\ Len(st) \in Nat /\ DOMAIN st = 1 .. Len(st)
        /\ \A j \in Indices : b[j] \in 0 .. Len(st)
    BY <1>0, CharFacts
  <2>2. p \in Indices /\ i \in 0 .. (MaxResponse + 1)
    BY <1>0 DEF Typed
  <2>3. 0 \in Indices /\ i \in Nat /\ p \in Nat
    BY <2>1, <2>2 DEF Indices
  <2> QED
    BY <2>1, <2>2, <2>3
<1>2. /\ d \in [Indices -> 0 .. Len(st)] /\ d[MaxResponse] = 0 /\ d[0] = 0
  BY <1>0, <1>1 DEF Typed
<1> HIDE DEF d
<1>3. \A j \in i .. (p - 1) : j \in Indices /\ j \in Nat /\ b[j] \in 1 .. Len(st)
  <2>1. \A j \in i .. (p - 1) : j \in Indices /\ j \in Nat
    BY <1>1 DEF Indices
  <2>2. \A j \in i .. (p - 1) : b[j] \in 0 .. Len(st) /\ b[j] # 0
    BY <1>0, <1>1, <2>1 DEF Data
  <2> QED
    BY <1>1, <2>1, <2>2
<1>4. dr \subseteq 1 .. Len(st) /\ dd \subseteq 1 .. Len(st) /\ ls \in Seq(Seq(1 .. Len(st)))
  <2>1. dr \subseteq 1 .. Len(st) /\ ls \in Seq(Seq(1 .. Len(st)))
    BY <1>0 DEF Typed
  <2>2. \A x \in Held(b, i, p) : x \in 1 .. Len(st)
    BY <1>3, HeldFacts
  <2> QED
    BY <2>1, <2>2
<1>5. Typed(d, st, 0, 0, ls, dd)
  BY <1>0, <1>1, <1>2, <1>4 DEF Typed
<1>e. 0 .. (0 - 1) = {}
  OBVIOUS
<1>6. Data(d, 0, 0)
  BY <1>e DEF Data
<1>7. Covers(d, st, 0, 0, ls, dd)
  BY <1>0 DEF Covers
<1>8. ASSUME Plain(st, ls) PROVE Tidy(d, st, 0, 0, ls, dd)
  <2>1. Tidy(b, st, i, p, ls, dr)
    BY <1>0, <1>8
  <2>2. i <= p /\ \A j \in i .. (p - 1) : b[j] + p = Len(st) + 1 + j
    BY <2>1 DEF Tidy, Newest
  <2>3. Newest(d, st, 0, 0)
    BY <1>2, <1>e DEF Newest
  <2>g. \A x \in Got(ls) : x \in 1 .. Len(st) /\ x + p <= Len(st) + i
    BY <1>1, <1>4, <2>1, GotFacts DEF Tidy, Before
  <2>4. Before(st, 0, 0, ls, dd)
    <3>1. \A x \in Got(ls) \cup dd : x \in 1 .. Len(st)
      BY <1>4, <2>g
    <3>2. \A x \in Got(ls) \cup dd : x + 0 <= Len(st) + 0
      BY <1>1, <3>1
    <3> QED
      BY <3>2 DEF Before
  <2>5. Edge(st, 0, 0, dd)
    <3> SUFFICES ASSUME NEW x \in Nat, x > 0, x + 0 = Len(st) + 0
                 PROVE  st[x] = "eol" \/ x \in dd
      BY DEF Edge
    <3>1. CASE i = p
      <4>1. x + p = Len(st) + i
        BY <1>1, <3>1
      <4> QED
        BY <2>1, <4>1 DEF Tidy, Edge
    <3>2. CASE i # p
      <4>1. p - 1 \in i .. (p - 1)
        BY <1>1, <2>2, <3>2
      <4>2. b[p - 1] + p = Len(st) + 1 + (p - 1) /\ b[p - 1] \in Nat
        BY <1>3, <2>2, <4>1
      <4>3. b[p - 1] = x
        BY <1>1, <4>2
      <4> QED
        BY <4>1, <4>3, HeldFacts
    <3> QED
      BY <3>1, <3>2
  <2>6. Got(ls) \cap dd = {}
    <3>1. ASSUME NEW x \in Got(ls), x \in Held(b, i, p) PROVE FALSE
      <4>1. PICK j \in i .. (p - 1) : x = b[j]
        BY <3>1, HeldFacts
      <4>2. x + p = Len(st) + 1 + j /\ j \in Nat /\ i <= j
        BY <1>1, <1>3, <2>2, <4>1
      <4>3. x \in Nat /\ x + p <= Len(st) + i
        BY <1>1, <2>g, <3>1
      <4> QED
        BY <1>1, <4>2, <4>3
    <3> QED
      BY <2>1, <3>1 DEF Tidy
  <2>7. \A m \in DOMAIN ls : Line(ls[m], st, dd)
    BY <2>1 DEF Tidy, Line
  <2> QED
    BY <2>1, <2>3, <2>4, <2>5, <2>6, <2>7 DEF Tidy
<1> QED
  BY <1>5, <1>6, <1>7, <1>8 DEF Whole, d

\* the line from c to the end of line e
Cut(b, c, e) == [k \in 1 .. (e - c) |-> b[c + k - 1]]

Bytes(b, c, e, n) == \A j \in c .. (e - 1) : b[j] \in 1 .. n

IsCut(ln, ls, b, c, e, n) ==
  /\ ln \in Seq(1 .. n) /\ Len(ln) = e - c /\ DOMAIN ln = 1 .. (e - c)
  /\ \A k \in DOMAIN ln : c + k - 1 \in c .. (e - 1) /\ ln[k] = b[c + k - 1]
  /\ Positions(ln) = Held(b, c, e)
  /\ Append(ls, ln) \in Seq(Seq(1 .. n)) /\ Got(Append(ls, ln)) = Got(ls) \cup Held(b, c, e)

\* The bytes of a line that is cut off.
LEMMA CutFacts ==
  ASSUME NEW n \in Nat, NEW ls \in Seq(Seq(1 .. n)), NEW b, NEW c \in Nat, NEW e \in Nat, c < e,
         Bytes(b, c, e, n)
  PROVE  IsCut(Cut(b, c, e), ls, b, c, e, n)
<1> DEFINE ln == Cut(b, c, e)
<1>1. e - c \in Nat /\ \A k \in 1 .. (e - c) : c + k - 1 \in c .. (e - 1)
  OBVIOUS
<1>2. /\ DOMAIN ln = 1 .. (e - c)
      /\ \A k \in 1 .. (e - c) : ln[k] = b[c + k - 1] /\ ln[k] \in 1 .. n
  BY <1>1 DEF Cut, Bytes
<1>3. ln \in Seq(1 .. n) /\ Len(ln) = e - c
  <2>1. ln \in [1 .. (e - c) -> 1 .. n]
    BY <1>1 DEF Cut, Bytes
  <2>2. \A m \in Nat : \A f \in [1 .. m -> 1 .. n] : f \in Seq(1 .. n) /\ Len(f) = m
    OBVIOUS
  <2> QED
    BY <1>1, <2>1, <2>2
<1>4. \A j \in c .. (e - 1) : \E k \in 1 .. (e - c) : j = c + k - 1
  <2> SUFFICES ASSUME NEW j \in c .. (e - 1) PROVE \E k \in 1 .. (e - c) : j = c + k - 1
    OBVIOUS
  <2>1. j - c + 1 \in 1 .. (e - c) /\ j = c + (j - c + 1) - 1
    OBVIOUS
  <2> QED
    BY <2>1
<1> HIDE DEF ln
<1>5. Positions(ln) = Held(b, c, e)
  <2>1. ASSUME NEW x \in Positions(ln) PROVE x \in Held(b, c, e)
    <3>1. PICK k \in 1 .. (e - c) : x = ln[k]
      BY <1>2 DEF Positions
    <3>2. c + k - 1 \in c .. (e - 1) /\ x = b[c + k - 1]
      BY <1>1, <1>2, <3>1
    <3> QED
      BY <3>2, HeldFacts
  <2>2. ASSUME NEW x \in Held(b, c, e) PROVE x \in Positions(ln)
    <3>1. PICK j \in c .. (e - 1) : x = b[j]
      BY HeldFacts
    <3>2. PICK k \in 1 .. (e - c) : j = c + k - 1
      BY <1>4
    <3> QED
      BY <1>2, <3>1, <3>2 DEF Positions
  <2> QED
    BY <2>1, <2>2
<1> DEFINE l == Append(ls, ln)
<1>6. /\ l \in Seq(Seq(1 .. n)) /\ Len(ls) \in Nat /\ DOMAIN ls = 1 .. Len(ls)
      /\ DOMAIN l = 1 .. (Len(ls) + 1) /\ l[Len(ls) + 1] = ln
      /\ \A k \in 1 .. Len(ls) : l[k] = ls[k]
  BY <1>3
<1> HIDE DEF l
<1>7. Got(l) = Got(ls) \cup Positions(ln)
  <2>0. \A k \in 1 .. (Len(ls) + 1) : k \in 1 .. Len(ls) \/ k = Len(ls) + 1
    BY <1>6
  <2>1. \A k \in DOMAIN l : (k \in DOMAIN ls /\ l[k] = ls[k]) \/ (k = Len(ls) + 1 /\ l[k] = ln)
    <3> SUFFICES ASSUME NEW k \in 1 .. (Len(ls) + 1)
                 PROVE  (k \in 1 .. Len(ls) /\ l[k] = ls[k]) \/ (k = Len(ls) + 1 /\ l[k] = ln)
      BY <1>6
    <3>1. CASE k \in 1 .. Len(ls)
      BY <1>6, <3>1
    <3>2. CASE k = Len(ls) + 1
      BY <1>6, <3>2
    <3> QED
      BY <2>0, <3>1, <3>2
  <2>2. Len(ls) + 1 \in DOMAIN l /\ \A k \in DOMAIN ls : k \in DOMAIN l /\ l[k] = ls[k]
    BY <1>6
  <2>3. l[Len(ls) + 1] = ln
    BY <1>6
  <2>4. ASSUME NEW x \in Got(l) PROVE x \in Got(ls) \cup Positions(ln)
    <3>1. PICK k \in DOMAIN l : x \in Positions(l[k])
      BY DEF Got
    <3> QED
      BY <2>1, <3>1 DEF Got
  <2>5. ASSUME NEW x \in Got(ls) \cup Positions(ln) PROVE x \in Got(l)
    <3>1. CASE x \in Positions(ln)
      BY <2>2, <2>3, <3>1 DEF Got
    <3>2. CASE x \in Got(ls)
      BY <2>2, <3>2 DEF Got
    <3> QED
      BY <3>1, <3>2
  <2> QED
    BY <2>4, <2>5
<1> QED
  BY <1>1, <1>2, <1>3, <1>5, <1>6, <1>7 DEF l, ln, IsCut

\* A line is cut off at the end of line that findNextEOL() found.
LEMMA LineView ==
  ASSUME NEW b, NEW st, NEW c \in Indices, NEW p, NEW ls, NEW dr, Whole(b, st, c, p, ls, dr),
         Char(b, st, c) # "eol", NEW e, e = findNextEOL(b, st, c), e # NULL
  PROVE  Whole([b EXCEPT ![e] = 0], st, e + 1, p, Append(ls, Cut(b, c, e)), dr)
<1> DEFINE d == [b EXCEPT ![e] = 0]
           ln == Cut(b, c, e)
           l == Append(ls, ln)
<1>0. /\ Typed(b, st, c, p, ls, dr) /\ Data(b, c, p) /\ Covers(b, st, c, p, ls, dr)
      /\ Plain(st, ls) => Tidy(b, st, c, p, ls, dr)
  BY DEF Whole
<1>1. /\ MaxResponse \in Nat /\ Len(st) \in Nat /\ DOMAIN st = 1 .. Len(st)
      /\ \A j \in Indices : /\ b[j] \in 0 .. Len(st)
                            /\ Char(b, st, j) = "nul" <=> b[j] = 0
                            /\ Char(b, st, j) # "nul" => Char(b, st, j) = st[b[j]]
  BY <1>0, CharFacts
<1>2. /\ b \in [Indices -> 0 .. Len(st)] /\ b[MaxResponse] = 0 /\ st \in Seq(Alphabet)
      /\ p \in Indices /\ ls \in Seq(Seq(1 .. Len(st))) /\ dr \subseteq 1 .. Len(st)
  BY <1>0 DEF Typed
<1>3. \/ /\ IsPrompt(b, st, c) /\ e = c + 2 /\ e \in Indices
      \/ /\ ~IsPrompt(b, st, c) /\ e \in c + 1 .. MaxResponse /\ e \in Indices
         /\ Char(b, st, e) = "eol"
         /\ \A j \in c .. (e - 1) : Char(b, st, j) \notin {"nul", "eol"}
  BY <1>0, EOLFacts
<1>4. c \in Nat /\ e \in Nat /\ p \in Nat /\ c < e /\ e <= MaxResponse /\ e \in Indices
  BY <1>1, <1>2, <1>3 DEF Indices
<1>n. Len(st) \in Nat /\ c \in Nat /\ e \in Nat /\ p \in Nat
  BY <1>1, <1>4
<1>5. \A j \in c .. (e - 1) : j \in Indices /\ Char(b, st, j) \notin {"nul", "eol"}
  <2>1. CASE IsPrompt(b, st, c)
    <3>1. Char(b, st, c) = ">" /\ Char(b, st, c + 1) = "sp"
      BY <2>1 DEF IsPrompt
    <3>2. \A j \in c .. (e - 1) : j \in Indices /\ (j = c \/ j = c + 1)
      <4>1. e = c + 2
        BY <1>3, <2>1
      <4> QED
        BY <1>1, <1>4, <4>1 DEF Indices
    <3> QED
      BY <3>1, <3>2
  <2>2. CASE ~IsPrompt(b, st, c)
    <3>1. \A j \in c .. (e - 1) : j \in Indices
      BY <1>1, <1>4 DEF Indices
    <3> QED
      BY <1>3, <2>2, <3>1
  <2> QED
    BY <2>1, <2>2
<1>6. \A j \in c .. (e - 1) : b[j] \in 1 .. Len(st) /\ st[b[j]] # "eol" /\ st[b[j]] = Char(b, st, j)
  <2>1. \A j \in c .. (e - 1) : b[j] \in 0 .. Len(st) /\ b[j] # 0 /\ st[b[j]] # "eol" /\ st[b[j]] = Char(b, st, j)
    BY <1>1, <1>5
  <2> QED
    BY <1>1, <2>1
<1>7. /\ ln \in Seq(1 .. Len(st)) /\ Len(ln) = e - c /\ DOMAIN ln = 1 .. (e - c)
      /\ \A k \in DOMAIN ln : c + k - 1 \in c .. (e - 1) /\ ln[k] = b[c + k - 1]
      /\ Positions(ln) = Held(b, c, e)
      /\ l \in Seq(Seq(1 .. Len(st))) /\ Got(l) = Got(ls) \cup Held(b, c, e)
  <2>1. Bytes(b, c, e, Len(st))
    BY <1>6 DEF Bytes
  <2>2. Len(st) \in Nat /\ c \in Nat /\ e \in Nat /\ c < e /\ ls \in Seq(Seq(1 .. Len(st)))
    BY <1>1, <1>2, <1>4
  <2>3. IsCut(Cut(b, c, e), ls, b, c, e, Len(st))
    BY <2>1, <2>2, CutFacts
  <2> QED
    BY <2>3 DEF IsCut
<1> HIDE DEF ln
<1>8. /\ Len(ls) \in Nat /\ DOMAIN ls = 1 .. Len(ls)
      /\ DOMAIN l = 1 .. (Len(ls) + 1) /\ l[Len(ls) + 1] = ln
      /\ \A k \in 1 .. Len(ls) : l[k] = ls[k]
  BY <1>2, <1>7
<1> HIDE DEF l
<1>9. /\ d \in [Indices -> 0 .. Len(st)] /\ d[e] = 0 /\ d[MaxResponse] = 0
      /\ \A j \in Indices : j # e => d[j] = b[j]
  <2>1. d \in [Indices -> 0 .. Len(st)] /\ d[e] = 0 /\ \A j \in Indices : j # e => d[j] = b[j]
    BY <1>1, <1>2, <1>4
  <2>2. MaxResponse \in Indices
    BY <1>1 DEF Indices
  <2> HIDE DEF d
  <2> QED
    BY <1>2, <2>1, <2>2
<1> HIDE DEF d
<1>10. \A j \in e + 1 .. (p - 1) : j \in c .. (p - 1) /\ j \in Indices /\ d[j] = b[j]
  <2>1. \A j \in e + 1 .. (p - 1) : j \in c .. (p - 1) /\ j \in Indices /\ j # e
    BY <1>1, <1>2, <1>4 DEF Indices
  <2> QED
    BY <1>9, <2>1
<1>11. Typed(d, st, e + 1, p, l, dr)
  <2>1. e + 1 \in 0 .. (MaxResponse + 1)
    BY <1>1, <1>4
  <2> QED
    BY <1>2, <1>7, <1>9, <2>1 DEF Typed
<1>12. Data(d, e + 1, p)
  BY <1>0, <1>10 DEF Data
<1>13. Covers(d, st, e + 1, p, l, dr)
  <2> SUFFICES ASSUME NEW x \in 1 .. Len(st), st[x] # "eol", x \in Held(b, c, p)
               PROVE  x \in Held(b, c, e) \cup Held(d, e + 1, p)
    BY <1>0, <1>1, <1>7 DEF Covers
  <2>1. PICK j \in c .. (p - 1) : x = b[j]
    BY HeldFacts
  <2>2. CASE j \in c .. (e - 1)
    BY <2>1, <2>2, HeldFacts
  <2>3. CASE j = e
    <3>1. b[e] # 0
      BY <1>1, <2>1, <2>3
    <3>2. ~IsPrompt(b, st, c)
      <4>1. IsPrompt(b, st, c) => Char(b, st, e) = "nul"
        BY <1>3 DEF IsPrompt
      <4> QED
        BY <1>1, <1>4, <3>1, <4>1
    <3>3. st[b[e]] = "eol"
      BY <1>1, <1>3, <3>1, <3>2
    <3> QED
      BY <2>1, <2>3, <3>3
  <2>4. CASE j \in e + 1 .. (p - 1)
    <3>1. x = d[j]
      BY <1>10, <2>1, <2>4
    <3> QED
      BY <2>4, <3>1, HeldFacts
  <2>5. j \in c .. (e - 1) \/ j = e \/ j \in e + 1 .. (p - 1)
    BY <1>4
  <2> QED
    BY <2>2, <2>3, <2>4, <2>5
<1>14. ASSUME Plain(st, l) PROVE Tidy(d, st, e + 1, p, l, dr)
  <2>1. Plain(st, ls)
    <3>1. \A m \in DOMAIN ls : m \in DOMAIN l /\ l[m] = ls[m]
      BY <1>8
    <3> QED
      BY <1>14, <3>1 DEF Plain
  <2>2. ~IsPrompt(b, st, c)
    <3> SUFFICES ASSUME IsPrompt(b, st, c) PROVE FALSE
      OBVIOUS
    <3>1. e = c + 2 /\ Char(b, st, c) = ">" /\ Char(b, st, c + 1) = "sp"
      BY <1>3 DEF IsPrompt
    <3>a. e - c = 2
      BY <1>4, <3>1
    <3>2. DOMAIN ln = 1 .. 2
      BY <1>7, <3>a
    <3>3. c \in c .. (e - 1) /\ c + 1 \in c .. (e - 1) /\ c + 1 - 1 = c /\ c + 2 - 1 = c + 1
      BY <1>4, <3>1
    <3>b. 1 \in DOMAIN ln /\ 2 \in DOMAIN ln
      BY <3>2
    <3>4. ln[1] = b[c] /\ ln[2] = b[c + 1]
      <4>1. ln[1] = b[c + 1 - 1] /\ ln[2] = b[c + 2 - 1]
        BY <1>7, <3>b
      <4> QED
        BY <3>3, <4>1
    <3>5. st[ln[1]] = ">" /\ st[ln[2]] = "sp"
      BY <1>6, <3>1, <3>3, <3>4
    <3>6. [k \in DOMAIN ln |-> st[ln[k]]] = <<">", "sp">>
      BY <3>2, <3>5
    <3>7. Len(ls) + 1 \in DOMAIN l /\ l[Len(ls) + 1] = ln
      BY <1>8
    <3> QED
      BY <1>14, <3>6, <3>7 DEF Plain
  <2>3. Tidy(b, st, c, p, ls, dr) /\ Char(b, st, e) = "eol"
    BY <1>0, <1>3, <2>1, <2>2
  <2>4. c <= p /\ b[p] = 0 /\ \A j \in c .. (p - 1) : b[j] + p = Len(st) + 1 + j
    BY <2>3 DEF Tidy, Newest
  <2>5. e < p
    <3> SUFFICES ASSUME ~(e < p) PROVE FALSE
      OBVIOUS
    <3>1. p \in c .. (e - 1) \/ p = e
      BY <1>4, <2>4
    <3>2. b[e] # 0
      BY <1>1, <1>4, <2>3
    <3>3. \A j \in c .. (e - 1) : b[j] # 0
      BY <1>1, <1>6
    <3> QED
      BY <2>4, <3>1, <3>2, <3>3
  <2>6. /\ \A j \in c .. (e - 1) : j \in Nat /\ c <= j /\ j < e /\ b[j] + p = Len(st) + 1 + j /\ b[j] \in Nat
        /\ b[e] + p = Len(st) + 1 + e /\ b[e] \in 1 .. Len(st) /\ st[b[e]] = "eol"
    <3>1. e \in c .. (p - 1) /\ \A j \in c .. (e - 1) : j \in c .. (p - 1) /\ j \in Nat /\ c <= j /\ j < e
      BY <1>4, <2>5
    <3>2. b[e] \in 0 .. Len(st) /\ b[e] # 0 /\ st[b[e]] = "eol"
      BY <1>1, <1>4, <2>3
    <3>3. \A j \in c .. (e - 1) : b[j] \in Nat
      BY <1>1, <1>6
    <3>4. b[e] \in 1 .. Len(st)
      BY <1>1, <3>2
    <3> QED
      BY <2>4, <3>1, <3>2, <3>3, <3>4
  <2>h. \A x \in Held(b, c, e) : x \in 1 .. Len(st) /\ x + p <= Len(st) + e /\ x + p > Len(st) + c
    <3> SUFFICES ASSUME NEW x \in Held(b, c, e)
                 PROVE  x \in 1 .. Len(st) /\ x + p <= Len(st) + e /\ x + p > Len(st) + c
      OBVIOUS
    <3>1. PICK j \in c .. (e - 1) : x = b[j]
      BY HeldFacts
    <3>2. j \in Nat /\ c <= j /\ j < e /\ x + p = Len(st) + 1 + j /\ x \in 1 .. Len(st)
      BY <1>6, <2>6, <3>1
    <3> QED
      BY <1>1, <1>4, <3>2
  <2>g. \A x \in Got(ls) \cup dr : x \in 1 .. Len(st) /\ x + p <= Len(st) + c
    <3>1. Got(ls) \subseteq 1 .. Len(st)
      BY <1>1, <1>2, GotFacts
    <3> QED
      BY <1>2, <2>3, <3>1 DEF Tidy, Before
  <2>7. Newest(d, st, e + 1, p)
    <3>1. e + 1 <= p
      BY <1>4, <2>5
    <3>2. d[p] = 0
      BY <1>2, <1>4, <1>9, <2>4, <2>5
    <3> QED
      BY <1>10, <2>4, <3>1, <3>2 DEF Newest
  <2>8. Before(st, e + 1, p, l, dr)
    <3>1. \A x \in 1 .. Len(st) : x + p <= Len(st) + c \/ x + p <= Len(st) + e => x + p <= Len(st) + (e + 1)
      BY <1>1, <1>4
    <3>2. \A x \in Got(l) \cup dr : x \in Held(b, c, e) \/ x \in Got(ls) \cup dr
      BY <1>7
    <3>3. \A x \in Got(l) \cup dr : x + p <= Len(st) + (e + 1)
      BY <2>g, <2>h, <3>1, <3>2
    <3> QED
      BY <3>3 DEF Before
  <2>9. Edge(st, e + 1, p, dr)
    <3> SUFFICES ASSUME NEW x \in Nat, x + p = Len(st) + (e + 1) PROVE st[x] = "eol"
      BY DEF Edge
    <3>1. x = b[e]
      BY <1>1, <1>4, <2>6
    <3> QED
      BY <2>6, <3>1
  <2>10. InOrder(l)
    <3> SUFFICES ASSUME NEW k \in DOMAIN l, NEW m \in DOMAIN l, k < m,
                        NEW x \in Positions(l[k]), NEW y \in Positions(l[m])
                 PROVE  x < y
      BY DEF InOrder
    <3>1. k \in DOMAIN ls /\ l[k] = ls[k]
      BY <1>8
    <3>2. CASE m \in DOMAIN ls
      <4>1. l[m] = ls[m]
        BY <1>8, <3>2
      <4> QED
        BY <2>3, <3>1, <3>2, <4>1 DEF Tidy, InOrder
    <3>3. CASE m \notin DOMAIN ls
      <4>1. m = Len(ls) + 1
        BY <1>8, <3>3
      <4>2. y \in Held(b, c, e)
        BY <1>7, <1>8, <4>1
      <4>3. x \in Got(ls)
        BY <3>1 DEF Got
      <4>4. /\ y \in 1 .. Len(st) /\ y + p > Len(st) + c
            /\ x \in 1 .. Len(st) /\ x + p <= Len(st) + c
        BY <2>g, <2>h, <4>2, <4>3
      <4> QED
        BY <1>1, <1>4, <4>4
    <3> QED
      BY <3>2, <3>3
  <2>11. Got(l) \cap dr = {}
    <3>1. \A x \in 1 .. Len(st) : ~(x + p > Len(st) + c /\ x + p <= Len(st) + c)
      BY <1>1, <1>4
    <3>2. \A x \in Held(b, c, e) : x \notin dr
      BY <2>g, <2>h, <3>1
    <3>3. Got(ls) \cap dr = {}
      BY <2>3 DEF Tidy
    <3> QED
      BY <1>7, <3>2, <3>3
  <2>12. Line(ln, st, dr)
    <3>1. Len(ln) \in Nat /\ Len(ln) >= 1 /\ 1 \in DOMAIN ln /\ Len(ln) \in DOMAIN ln /\ ln # <<>>
      BY <1>4, <1>7
    <3>2. \A k \in DOMAIN ln : k \in Nat /\ ln[k] \in 1 .. Len(st) /\ st[ln[k]] # "eol"
                               /\ ln[k] + p = Len(st) + 1 + (c + k - 1)
      <4>1. \A k \in DOMAIN ln : k \in Nat /\ c + k - 1 \in c .. (e - 1) /\ ln[k] = b[c + k - 1]
        BY <1>7
      <4> QED
        BY <1>6, <2>6, <4>1
    <3>3. ln[1] \in 1 .. Len(st) /\ ln[1] + p = Len(st) + 1 + c
      <4>1. c + 1 - 1 = c
        BY <1>4
      <4> QED
        BY <3>1, <3>2, <4>1
    <3>4. \A k \in DOMAIN ln : ln[k] = ln[1] + k - 1
      <4> SUFFICES ASSUME NEW k \in DOMAIN ln PROVE ln[k] = ln[1] + k - 1
        OBVIOUS
      <4>1. k \in Nat /\ ln[k] \in 1 .. Len(st) /\ ln[k] + p = Len(st) + 1 + (c + k - 1)
        BY <3>2
      <4>2. Len(st) \in Nat /\ c \in Nat /\ p \in Nat
        BY <1>1, <1>4
      <4>3. \A f, g, L, P, C, K \in Nat :
              f + P = L + 1 + (C + K - 1) /\ g + P = L + 1 + C => f = g + K - 1
        OBVIOUS
      <4>4. ln[k] \in Nat /\ ln[1] \in Nat
        BY <3>3, <4>1, <4>2
      <4> QED
        BY <3>3, <4>1, <4>2, <4>3, <4>4
    <3>5. ln[Len(ln)] + 1 = b[e]
      <4>1. c + (e - c) - 1 = e - 1 /\ e - 1 \in c .. (e - 1)
        BY <1>4
      <4>2. ln[Len(ln)] = b[e - 1]
        BY <1>7, <3>1, <4>1
      <4>3. b[e - 1] + p = Len(st) + 1 + (e - 1) /\ b[e - 1] \in Nat
        BY <2>6, <4>1
      <4>b. b[e] \in Nat /\ b[e] + p = Len(st) + 1 + e
        BY <1>1, <2>6
      <4>4. b[e - 1] + 1 = b[e]
        <5> DEFINE f == b[e - 1]
                   g == b[e]
        <5>1. f \in Nat /\ g \in Nat /\ f + p = Len(st) + 1 + (e - 1) /\ g + p = Len(st) + 1 + e
          BY <4>3, <4>b
        <5> HIDE DEF f, g
        <5>2. f + 1 = g
          BY <1>n, <5>1
        <5> QED
          BY <5>2 DEF f, g
      <4> QED
        BY <4>2, <4>4
    <3>6. ln[1] > 1 => st[ln[1] - 1] = "eol" \/ ln[1] - 1 \in dr
      <4> SUFFICES ASSUME ln[1] > 1 PROVE st[ln[1] - 1] = "eol" \/ ln[1] - 1 \in dr
        OBVIOUS
      <4>1. ln[1] - 1 \in Nat /\ ln[1] - 1 > 0 /\ (ln[1] - 1) + p = Len(st) + c
        <5>1. \A f, L, P, C \in Nat :
                f > 1 /\ f + P = L + 1 + C => f - 1 \in Nat /\ f - 1 > 0 /\ (f - 1) + P = L + C
          OBVIOUS
        <5>2. ln[1] \in Nat
          BY <1>1, <3>3
        <5> QED
          BY <1>n, <3>3, <5>1, <5>2, SMTT(40)
      <4> QED
        BY <2>3, <4>1 DEF Tidy, Edge
    <3> QED
      BY <1>1, <2>6, <3>1, <3>2, <3>4, <3>5, <3>6 DEF Line
  <2>13. \A m \in DOMAIN l : Line(l[m], st, dr)
    <3>0. \A k \in 1 .. (Len(ls) + 1) : k \in 1 .. Len(ls) \/ k = Len(ls) + 1
      BY <1>8
    <3>1. \A m \in DOMAIN l : (m \in DOMAIN ls /\ l[m] = ls[m]) \/ (m = Len(ls) + 1 /\ l[m] = ln)
      <4> SUFFICES ASSUME NEW m \in 1 .. (Len(ls) + 1)
                   PROVE  (m \in 1 .. Len(ls) /\ l[m] = ls[m]) \/ (m = Len(ls) + 1 /\ l[m] = ln)
        BY <1>8
      <4>1. CASE m \in 1 .. Len(ls)
        BY <1>8, <4>1
      <4>2. CASE m = Len(ls) + 1
        BY <1>8, <4>2
      <4> QED
        BY <3>0, <4>1, <4>2
    <3>2. \A m \in DOMAIN ls : Line(ls[m], st, dr)
      BY <2>3 DEF Tidy
    <3> QED
      BY <2>12, <3>1, <3>2
  <2> QED
    BY <2>7, <2>8, <2>9, <2>10, <2>11, <2>13 DEF Tidy
<1> QED
  BY <1>11, <1>12, <1>13, <1>14 DEF Whole, d, l, ln

\* the buffer after the n bytes from c on, and their '\0', were moved to the front
Moved(b, c, n) == [j \in Indices |-> IF j <= n THEN b[c + j] ELSE b[j]]

\* The beginning of a line is moved to the front of the buffer.
LEMMA MoveView ==
  ASSUME NEW b, NEW st, NEW c \in Indices, NEW p, NEW ls, NEW dr, Whole(b, st, c, p, ls, dr),
         Char(b, st, c) # "eol", findNextEOL(b, st, c) = NULL
  PROVE  LET n == Strlen(b, c) IN
         /\ Whole(Moved(b, c, n), st, 0, n, ls, dr) /\ 0 <= n /\ Moved(b, c, n)[n] = 0
         /\ \A j \in 0 .. (n - 1) : Char(Moved(b, c, n), st, j) # "eol"
         /\ ~IsPrompt(Moved(b, c, n), st, 0)
<1> DEFINE n == Strlen(b, c)
           d == Moved(b, c, n)
<1>0. /\ Typed(b, st, c, p, ls, dr) /\ Data(b, c, p) /\ Covers(b, st, c, p, ls, dr)
      /\ Plain(st, ls) => Tidy(b, st, c, p, ls, dr)
  BY DEF Whole
<1>1. /\ MaxResponse \in Nat /\ Len(st) \in Nat /\ DOMAIN st = 1 .. Len(st)
      /\ \A j \in Indices : /\ b[j] \in 0 .. Len(st)
                            /\ Char(b, st, j) = "nul" <=> b[j] = 0
                            /\ Char(b, st, j) # "nul" => Char(b, st, j) = st[b[j]]
  BY <1>0, CharFacts
<1>2. /\ b \in [Indices -> 0 .. Len(st)] /\ b[MaxResponse] = 0 /\ st \in Seq(Alphabet)
      /\ p \in Indices /\ ls \in Seq(Seq(1 .. Len(st))) /\ dr \subseteq 1 .. Len(st)
  BY <1>0 DEF Typed
<1>3. /\ n \in Nat /\ n \in Indices /\ c + n \in Indices /\ b[c + n] = 0
      /\ \A j \in c .. (c + n - 1) : b[j] # 0
  BY <1>0, StrlenFacts
<1> HIDE DEF n
<1>n. Len(st) \in Nat /\ c \in Nat /\ n \in Nat /\ p \in Nat /\ MaxResponse \in Nat /\ c + n <= MaxResponse
  BY <1>1, <1>2, <1>3 DEF Indices
<1>4. /\ ~IsPrompt(b, st, c)
      /\ \E z \in c .. MaxResponse :
           b[z] = 0 /\ \A j \in c .. (z - 1) : Char(b, st, j) \notin {"nul", "eol"}
  BY <1>0, EOLFacts
<1>5. \A j \in c .. (c + n - 1) : Char(b, st, j) # "eol"
  <2>1. PICK z \in c .. MaxResponse :
          b[z] = 0 /\ \A j \in c .. (z - 1) : Char(b, st, j) \notin {"nul", "eol"}
    BY <1>4
  <2>2. z \notin c .. (c + n - 1)
    BY <1>3, <2>1
  <2>3. c .. (c + n - 1) \subseteq c .. (z - 1)
    BY <1>n, <2>2
  <2> QED
    BY <2>1, <2>3
<1>6. /\ d = [j \in Indices |-> d[j]]
      /\ \A j \in Indices : d[j] = IF j <= n THEN b[c + j] ELSE b[j]
  BY DEF Moved
<1> HIDE DEF d
<1>7. \A j \in 0 .. n : j \in Indices /\ c + j \in Indices /\ d[j] = b[c + j] /\ Char(d, st, j) = Char(b, st, c + j)
  <2>1. \A j \in 0 .. n : j \in Indices /\ c + j \in Indices /\ j <= n
    BY <1>n DEF Indices
  <2>2. \A j \in 0 .. n : d[j] = b[c + j]
    BY <1>6, <2>1
  <2> QED
    BY <2>1, <2>2 DEF Char
<1>8. \A j \in 0 .. (n - 1) : j \in 0 .. n /\ j \in Nat /\ c + j \in c .. (c + n - 1)
  BY <1>n
<1>9. n \in 0 .. n /\ d[n] = 0
  <2>1. n \in 0 .. n
    BY <1>n
  <2> QED
    BY <1>3, <1>7, <2>1
<1>10. \A j \in c .. (p - 1) : j \in c .. (c + n - 1)
  <2> SUFFICES ASSUME NEW j \in c .. (p - 1), j \notin c .. (c + n - 1) PROVE FALSE
    OBVIOUS
  <2>1. c + n \in c .. (p - 1)
    BY <1>n
  <2> QED
    BY <1>0, <1>3, <2>1 DEF Data
<1>11. \A x \in Held(b, c, p) : x \in Held(d, 0, n)
  <2> SUFFICES ASSUME NEW x \in Held(b, c, p) PROVE x \in Held(d, 0, n)
    OBVIOUS
  <2>1. PICK j \in c .. (p - 1) : x = b[j]
    BY HeldFacts
  <2>2. j \in c .. (c + n - 1)
    BY <1>10
  <2>3. j - c \in 0 .. (n - 1) /\ c + (j - c) = j
    BY <1>n, <2>2
  <2>4. d[j - c] = x
    BY <1>7, <1>8, <2>1, <2>3
  <2> QED
    BY <2>3, <2>4, HeldFacts
<1>12. Typed(d, st, 0, n, ls, dr)
  <2>1. \A j \in Indices : d[j] \in 0 .. Len(st)
    <3> SUFFICES ASSUME NEW j \in Indices PROVE d[j] \in 0 .. Len(st)
      OBVIOUS
    <3>1. CASE j <= n
      <4>1. j \in 0 .. n
        BY <1>n, <3>1 DEF Indices
      <4> QED
        BY <1>1, <1>7, <4>1
    <3>2. CASE ~(j <= n)
      BY <1>1, <1>6, <3>2
    <3> QED
      BY <3>1, <3>2
  <2>2. d[MaxResponse] = 0
    <3>1. MaxResponse \in Indices
      BY <1>n DEF Indices
    <3>2. CASE MaxResponse <= n
      <4>1. MaxResponse = n
        BY <1>n, <3>2
      <4> QED
        BY <1>9, <4>1
    <3>3. CASE ~(MaxResponse <= n)
      BY <1>2, <1>6, <3>1, <3>3
    <3> QED
      BY <3>2, <3>3
  <2>3. 0 \in 0 .. (MaxResponse + 1)
    BY <1>n
  <2>4. d \in [Indices -> 0 .. Len(st)]
    BY <1>6, <2>1
  <2> QED
    BY <1>2, <1>3, <2>2, <2>3, <2>4 DEF Typed
<1>13. Data(d, 0, n)
  BY <1>3, <1>7, <1>8 DEF Data
<1>14. Covers(d, st, 0, n, ls, dr)
  BY <1>0, <1>11 DEF Covers
<1>15. ASSUME Plain(st, ls) PROVE Tidy(d, st, 0, n, ls, dr)
  <2>1. Tidy(b, st, c, p, ls, dr)
    BY <1>0, <1>15
  <2>2. c <= p /\ b[p] = 0 /\ \A j \in c .. (p - 1) : b[j] + p = Len(st) + 1 + j
    BY <2>1 DEF Tidy, Newest
  <2>3. p = c + n
    <3>1. p \notin c .. (c + n - 1)
      BY <1>3, <2>2
    <3>2. c + n \notin c .. (p - 1)
      BY <1>0, <1>3 DEF Data
    <3> QED
      BY <1>n, <2>2, <3>1, <3>2
  <2>4. Newest(d, st, 0, n)
    <3>1. ASSUME NEW j \in 0 .. (n - 1) PROVE d[j] + n = Len(st) + 1 + j
      <4>1. c + j \in c .. (p - 1) /\ j \in Nat
        BY <1>n, <2>3
      <4>2. d[j] + p = Len(st) + 1 + (c + j) /\ d[j] \in Nat
        <5>1. d[j] = b[c + j] /\ b[c + j] \in 0 .. Len(st)
          BY <1>1, <1>7, <1>8
        <5> QED
          BY <1>n, <2>2, <4>1, <5>1
      <4> QED
        BY <1>n, <2>3, <4>1, <4>2
    <3>2. 0 <= n
      BY <1>n
    <3> QED
      BY <1>9, <3>1, <3>2 DEF Newest
  <2>5. Before(st, 0, n, ls, dr)
    <3>1. Got(ls) \subseteq 1 .. Len(st)
      BY <1>1, <1>2, GotFacts
    <3>2. \A x \in Got(ls) \cup dr : x \in 1 .. Len(st)
      BY <1>2, <3>1
    <3>3. \A x \in Got(ls) \cup dr : x + p <= Len(st) + c
      BY <2>1 DEF Tidy, Before
    <3>4. \A x \in Got(ls) \cup dr : x + n <= Len(st) + 0
      BY <1>n, <2>3, <3>2, <3>3
    <3> QED
      BY <3>4 DEF Before
  <2>6. Edge(st, 0, n, dr)
    <3>1. \A x \in Nat : x + n = Len(st) + 0 => x + p = Len(st) + c
      BY <1>n, <2>3
    <3> QED
      BY <2>1, <3>1 DEF Tidy, Edge
  <2> QED
    BY <2>1, <2>4, <2>5, <2>6 DEF Tidy
<1>16. \A j \in 0 .. (n - 1) : Char(d, st, j) # "eol"
  BY <1>5, <1>7, <1>8
<1>17. ~IsPrompt(d, st, 0)
  <2> SUFFICES ASSUME IsPrompt(d, st, 0) PROVE FALSE
    OBVIOUS
  <2>1. Char(d, st, 0) = ">" /\ Char(d, st, 1) = "sp" /\ Char(d, st, 2) = "nul"
    <3>1. 0 + 1 = 1 /\ 0 + 2 = 2
      OBVIOUS
    <3> QED
      BY <3>1 DEF IsPrompt
  <2>2. Char(d, st, n) = "nul"
    BY <1>9 DEF Char
  <2>3. n # 0 /\ n # 1
    BY <2>1, <2>2
  <2>4. 0 \in 0 .. n /\ 1 \in 0 .. n /\ 2 \in 0 .. n /\ c + 0 = c /\ c + 2 <= MaxResponse
    BY <1>n, <2>3
  <2>5. Char(b, st, c) = ">" /\ Char(b, st, c + 1) = "sp" /\ Char(b, st, c + 2) = "nul"
    BY <1>7, <2>1, <2>4
  <2> QED
    BY <1>4, <2>4, <2>5 DEF IsPrompt
<1>18. 0 <= n
  BY <1>n
<1> QED
  BY <1>9, <1>12, <1>13, <1>14, <1>15, <1>16, <1>17, <1>18 DEF Whole, d, n

\* What readline() keeps when it goes on reading is no complete line.
LEMMA KeepView ==
  ASSUME NEW b, NEW st, NEW c \in Indices, NEW p, NEW ls, NEW dr, Whole(b, st, c, p, ls, dr),
         Char(b, st, c) # "eol", findNextEOL(b, st, c) = NULL
  PROVE  /\ \A j \in c .. (p - 1) : Char(b, st, j) # "eol"
         /\ ~IsPrompt(b, st, c)
<1>0. Typed(b, st, c, p, ls, dr) /\ Data(b, c, p)
  BY DEF Whole
<1>1. /\ ~IsPrompt(b, st, c)
      /\ \E z \in c .. MaxResponse :
           b[z] = 0 /\ \A j \in c .. (z - 1) : Char(b, st, j) \notin {"nul", "eol"}
  BY <1>0, EOLFacts
<1>2. PICK z \in c .. MaxResponse :
        b[z] = 0 /\ \A j \in c .. (z - 1) : Char(b, st, j) \notin {"nul", "eol"}
  BY <1>1
<1>3. z \notin c .. (p - 1)
  BY <1>0, <1>2 DEF Data
<1>4. MaxResponse \in Nat /\ p \in Indices
  BY <1>0, CharFacts DEF Typed
<1>5. c \in Nat /\ p \in Nat
  BY <1>4 DEF Indices
<1>6. \A j \in c .. (p - 1) : j \in c .. (z - 1)
  BY <1>3, <1>4, <1>5
<1> QED
  BY <1>1, <1>2, <1>6
-----------------------------------------------------------------------------
(* The actions                                                             *)

\* The prompt is not found in an empty buffer.
LEMMA BlankView ==
  ASSUME NEW b \in [Indices -> Nat], NEW st
  PROVE  /\ [b EXCEPT ![0] = 0][0] = 0
         /\ \A j \in 0 .. (0 - 1) : Char([b EXCEPT ![0] = 0], st, j) # "eol"
         /\ ~IsPrompt([b EXCEPT ![0] = 0], st, 0)
<1>1. 0 \in Indices
  BY ReadlineAssumption DEF Indices
<1>2. [b EXCEPT ![0] = 0][0] = 0
  BY <1>1
<1>3. ~IsPrompt([b EXCEPT ![0] = 0], st, 0)
  BY <1>2 DEF IsPrompt, Char
<1>4. 0 .. (0 - 1) = {}
  OBVIOUS
<1> QED
  BY <1>2, <1>3, <1>4

LEMMA ReadInit == Init => ReadInv
<1> SUFFICES ASSUME Init PROVE ReadInv
  OBVIOUS
<1>1. /\ MaxResponse \in Nat /\ 0 \in Indices /\ MaxResponse \in Indices
      /\ 0 \in 0 .. (MaxResponse + 1)
  BY ReadlineAssumption DEF Indices
<1>2. /\ buf = [j \in Indices |-> 0] /\ cur = 0 /\ pread = 0 /\ pc = "call" /\ stream = <<>>
      /\ starts = <<1>> /\ lines = <<>> /\ dropped = {}
  BY DEF Init
<1>3. /\ stream \in Seq(Alphabet) /\ Len(stream) = 0 /\ DOMAIN stream = {}
      /\ DOMAIN lines = {} /\ lines \in Seq(Seq(1 .. Len(stream))) /\ starts \in Seq(Nat)
  BY <1>2
<1>4. Got(lines) = {}
  BY <1>3 DEF Got
<1>5. buf \in [Indices -> 0 .. Len(stream)] /\ \A j \in Indices : buf[j] = 0
  BY <1>2, <1>3
<1>6. Typed(buf, stream, cur, pread, lines, dropped)
  BY <1>1, <1>2, <1>3, <1>5 DEF Typed
<1>7. cur .. (pread - 1) = {}
  BY <1>2
<1>8. Newest(buf, stream, cur, pread)
  BY <1>1, <1>2, <1>5, <1>7 DEF Newest
<1>9. Edge(stream, cur, pread, dropped)
  BY <1>2, <1>3 DEF Edge
<1>10. Tidy(buf, stream, cur, pread, lines, dropped)
  BY <1>2, <1>3, <1>4, <1>8, <1>9 DEF Tidy, Before, InOrder
<1>11. Whole(buf, stream, cur, pread, lines, dropped)
  BY <1>3, <1>6, <1>7, <1>10 DEF Whole, Data, Covers
<1>12. pc = "call"
  BY <1>2
<1> QED
  BY <1>3, <1>11, <1>12 DEF ReadInv, NoLineHeldBack

\* readline() is called.
LEMMA CallInv == ReadInv /\ Call => ReadInv'
<1> SUFFICES ASSUME ReadInv, Call PROVE ReadInv'
  OBVIOUS
<1> DEFINE c == SkipNewlines(buf, stream, cur)
           e == findNextEOL(buf, stream, c)
           n == Strlen(buf, c)
<1>1. /\ Whole(buf, stream, cur, pread, lines, dropped) /\ starts \in Seq(Nat)
      /\ cur \in Indices
      /\ stream' = stream /\ starts' = starts /\ dropped' = dropped
  BY DEF ReadInv, Call
<1>2. buf \in [Indices -> Nat]
  <2>1. Typed(buf, stream, cur, pread, lines, dropped)
    BY <1>1 DEF Whole
  <2>2. buf \in [Indices -> 0 .. Len(stream)] /\ Len(stream) \in Nat
    BY <2>1 DEF Typed
  <2> QED
    BY <2>2
<1>3. CASE /\ buf[cur] = 0 /\ buf' = [buf EXCEPT ![0] = 0]
           /\ cur' = 0 /\ pread' = 0 /\ pc' = "read" /\ lines' = lines
  <2>1. Whole(buf', stream', cur', pread', lines', dropped')
    <3>1. Whole([buf EXCEPT ![0] = 0], stream, 0, 0, lines, dropped)
      BY <1>1, <1>3, ClearView
    <3> QED
      BY <1>1, <1>3, <3>1
  <2>2. /\ buf'[pread'] = 0 /\ cur' <= pread'
        /\ \A j \in cur' .. (pread' - 1) : Char(buf', stream', j) # "eol"
        /\ ~IsPrompt(buf', stream', cur')
    <3>1. /\ [buf EXCEPT ![0] = 0][0] = 0
          /\ \A j \in 0 .. (0 - 1) : Char([buf EXCEPT ![0] = 0], stream, j) # "eol"
          /\ ~IsPrompt([buf EXCEPT ![0] = 0], stream, 0)
      BY <1>2, BlankView
    <3>2. 0 <= 0
      OBVIOUS
    <3> QED
      BY <1>1, <1>3, <3>1, <3>2
  <2> QED
    BY <1>1, <1>3, <2>1, <2>2 DEF ReadInv, NoLineHeldBack
<1>s. Whole(buf, stream, c, pread, lines, dropped) /\ c \in Indices /\ Char(buf, stream, c) # "eol"
  BY <1>1, SkipView
<1> HIDE DEF c
<1>4. CASE e # NULL /\ Deliver(buf, c, e) /\ pread' = pread
  <2>1. Whole([buf EXCEPT ![e] = 0], stream, e + 1, pread, Append(lines, Cut(buf, c, e)), dropped)
    BY <1>s, <1>4, LineView
  <2> HIDE DEF e
  <2>2. /\ lines' = Append(lines, Cut(buf, c, e)) /\ buf' = [buf EXCEPT ![e] = 0]
        /\ cur' = e + 1 /\ pc' = "call" /\ pread' = pread
    BY <1>4 DEF Deliver, Cut
  <2>3. Whole(buf', stream', cur', pread', lines', dropped')
    BY <1>1, <2>1, <2>2
  <2> QED
    BY <1>1, <2>2, <2>3 DEF ReadInv, NoLineHeldBack
<1>5. CASE /\ e = NULL /\ buf' = Moved(buf, c, n)
           /\ cur' = 0 /\ pread' = n /\ pc' = "read" /\ lines' = lines
  <2>1. /\ Whole(Moved(buf, c, n), stream, 0, n, lines, dropped) /\ 0 <= n /\ Moved(buf, c, n)[n] = 0
        /\ \A j \in 0 .. (n - 1) : Char(Moved(buf, c, n), stream, j) # "eol"
        /\ ~IsPrompt(Moved(buf, c, n), stream, 0)
    BY <1>s, <1>5, MoveView
  <2> HIDE DEF n, e
  <2>2. Whole(buf', stream', cur', pread', lines', dropped')
    BY <1>1, <1>5, <2>1
  <2>3. /\ buf'[pread'] = 0 /\ cur' <= pread'
        /\ \A j \in cur' .. (pread' - 1) : Char(buf', stream', j) # "eol"
        /\ ~IsPrompt(buf', stream', cur')
    BY <1>1, <1>5, <2>1
  <2> QED
    BY <1>1, <1>5, <2>2, <2>3 DEF ReadInv, NoLineHeldBack
<1> QED
  BY <1>3, <1>4, <1>5 DEF Call, Moved, c

\* The full buffer is ditched.
LEMMA DitchInv == ReadInv /\ Ditch => ReadInv'
<1> SUFFICES ASSUME ReadInv, Ditch PROVE ReadInv'
  OBVIOUS
<1>1. /\ Whole(buf, stream, cur, pread, lines, dropped) /\ starts \in Seq(Nat)
      /\ pc = "read" /\ pread = MaxResponse
      /\ dropped' = dropped \cup Held(buf, cur, MaxResponse) /\ buf' = [buf EXCEPT ![0] = 0]
      /\ cur' = 0 /\ pread' = 0 /\ pc' = pc /\ stream' = stream /\ starts' = starts /\ lines' = lines
  BY DEF ReadInv, Ditch, Held
<1>2. buf \in [Indices -> Nat]
  <2>1. Typed(buf, stream, cur, pread, lines, dropped)
    BY <1>1 DEF Whole
  <2>2. buf \in [Indices -> 0 .. Len(stream)] /\ Len(stream) \in Nat
    BY <2>1 DEF Typed
  <2> QED
    BY <2>2
<1>3. Whole(buf', stream', cur', pread', lines', dropped')
  <2>1. Whole([buf EXCEPT ![0] = 0], stream, 0, 0, lines, dropped \cup Held(buf, cur, pread))
    BY <1>1, DitchView
  <2> QED
    BY <1>1, <2>1
<1>4. /\ buf'[pread'] = 0 /\ cur' <= pread'
      /\ \A j \in cur' .. (pread' - 1) : Char(buf', stream', j) # "eol"
      /\ ~IsPrompt(buf', stream', cur')
  <2>1. /\ [buf EXCEPT ![0] = 0][0] = 0
        /\ \A j \in 0 .. (0 - 1) : Char([buf EXCEPT ![0] = 0], stream, j) # "eol"
        /\ ~IsPrompt([buf EXCEPT ![0] = 0], stream, 0)
    BY <1>2, BlankView
  <2>2. 0 <= 0
    OBVIOUS
  <2> QED
    BY <1>1, <2>1, <2>2
<1> QED
  BY <1>1, <1>3, <1>4 DEF ReadInv, NoLineHeldBack

\* read() returns a chunk.
LEMMA ReadChunkInv ==
  ASSUME ReadInv, NEW n \in 1 .. (MaxResponse - pread), NEW chunk \in [1 .. n -> Alphabet],
         Read(chunk)
  PROVE  ReadInv'
<1> DEFINE st == stream \o chunk
           q == pread + n
           b == Filled(buf, Len(stream), pread, n)
           c == SkipNewlines(b, st, cur)
           e == findNextEOL(b, st, c)
<1>1. /\ Whole(buf, stream, cur, pread, lines, dropped) /\ starts \in Seq(Nat)
      /\ pc = "read" /\ cur <= pread
  BY DEF ReadInv, Read
<1>2. /\ MaxResponse \in Nat /\ pread \in Nat /\ cur \in Nat
      /\ pread <= MaxResponse /\ cur \in Indices /\ pread \in Indices
  <2>1. Typed(buf, stream, cur, pread, lines, dropped)
    BY <1>1 DEF Whole
  <2>2. /\ MaxResponse \in Nat /\ cur \in 0 .. (MaxResponse + 1) /\ pread \in Indices
    BY <2>1, CharFacts DEF Typed
  <2> QED
    BY <1>1, <2>2 DEF Indices
<1>3. n \in Nat /\ n >= 1 /\ q \in Nat /\ q = pread + n /\ q <= MaxResponse /\ cur <= q
  BY <1>1, <1>2
<1>4. Len(chunk) = n
  BY <1>3
<1>5. /\ stream' = st /\ pread' = q /\ starts' = starts /\ dropped' = dropped
      /\ \/ e # NULL /\ Deliver(b, c, e)
         \/ e = NULL /\ buf' = b /\ cur' = c /\ pc' = pc /\ lines' = lines
  BY <1>4 DEF Read, Filled
<1>6. Whole(b, st, cur, q, lines, dropped) /\ b[q] = 0
  BY <1>1, <1>3, ReadView
<1> HIDE DEF b, q, st
<1>7. /\ Whole(b, st, c, q, lines, dropped) /\ c \in Indices /\ Char(b, st, c) # "eol"
      /\ c <= q
  BY <1>2, <1>3, <1>6, SkipView
<1> HIDE DEF c
<1>8. CASE e # NULL /\ Deliver(b, c, e)
  <2>1. Whole([b EXCEPT ![e] = 0], st, e + 1, q, Append(lines, Cut(b, c, e)), dropped)
    BY <1>7, <1>8, LineView
  <2> HIDE DEF e
  <2>2. /\ lines' = Append(lines, Cut(b, c, e)) /\ buf' = [b EXCEPT ![e] = 0]
        /\ cur' = e + 1 /\ pc' = "call"
    BY <1>8 DEF Deliver, Cut
  <2>3. Whole(buf', stream', cur', pread', lines', dropped')
    BY <1>5, <2>1, <2>2
  <2> QED
    BY <1>1, <1>5, <2>2, <2>3 DEF ReadInv, NoLineHeldBack
<1>9. CASE e = NULL /\ buf' = b /\ cur' = c /\ pc' = pc /\ lines' = lines
  <2>1. /\ \A j \in c .. (q - 1) : Char(b, st, j) # "eol"
        /\ ~IsPrompt(b, st, c)
    BY <1>7, <1>9, KeepView
  <2> HIDE DEF e
  <2>2. Whole(buf', stream', cur', pread', lines', dropped')
    BY <1>5, <1>7, <1>9
  <2>3. /\ buf'[pread'] = 0 /\ cur' <= pread'
        /\ \A j \in cur' .. (pread' - 1) : Char(buf', stream', j) # "eol"
        /\ ~IsPrompt(buf', stream', cur')
    BY <1>5, <1>6, <1>7, <1>9, <2>1
  <2> QED
    BY <1>1, <1>5, <1>9, <2>2, <2>3 DEF ReadInv, NoLineHeldBack
<1> QED
  BY <1>5, <1>8, <1>9

\* The reader thread ends, a new one starts, or nothing happens: the buffer stays.
LEMMA RestInv == ReadInv /\ (Eof \/ Reopen \/ UNCHANGED vars) => ReadInv'
<1> SUFFICES ASSUME ReadInv, Eof \/ Reopen \/ UNCHANGED vars PROVE ReadInv'
  OBVIOUS
<1>1. UNCHANGED <<buf, cur, pread, stream, lines, dropped>>
  BY DEF Eof, Reopen, vars
<1>2. Whole(buf', stream', cur', pread', lines', dropped')
  BY <1>1 DEF ReadInv
<1>3. CASE Eof \/ UNCHANGED vars
  <2>1. starts' = starts /\ pc' \in {"call", "read", "eof"}
    BY <1>3 DEF ReadInv, Eof, vars
  <2>2. pc' \in {"read", "eof"} => pc \in {"read", "eof"}
    BY <1>3 DEF Eof, vars
  <2> QED
    BY <1>1, <1>2, <2>1, <2>2 DEF ReadInv, NoLineHeldBack
<1>4. CASE Reopen
  <2>1. pc' = "call" /\ starts' = Append(starts, Len(stream) + 1)
    BY <1>4 DEF Reopen
  <2>2. starts' \in Seq(Nat)
    <3>1. Typed(buf, stream, cur, pread, lines, dropped) /\ starts \in Seq(Nat)
      BY DEF ReadInv, Whole
    <3>2. Len(stream) \in Nat
      BY <3>1, CharFacts
    <3> QED
      BY <2>1, <3>1, <3>2
  <2> QED
    BY <1>2, <2>1, <2>2 DEF ReadInv, NoLineHeldBack
<1> QED
  BY <1>3, <1>4

LEMMA ReadNext == ReadInv /\ [Next]_vars => ReadInv'
<1> SUFFICES ASSUME ReadInv, [Next]_vars PROVE ReadInv'
  OBVIOUS
<1>1. CASE Call
  BY <1>1, CallInv
<1>2. CASE Ditch
  BY <1>2, DitchInv
<1>3. CASE \E n \in 1 .. (MaxResponse - pread) :
             /\ Len(stream) + n <= MaxStream
             /\ \E chunk \in [1 .. n -> Alphabet] : Read(chunk)
  <2>1. PICK n \in 1 .. (MaxResponse - pread) :
               \E chunk \in [1 .. n -> Alphabet] : Read(chunk)
    BY <1>3
  <2>2. PICK chunk \in [1 .. n -> Alphabet] : Read(chunk)
    BY <2>1
  <2> QED
    BY <2>2, ReadChunkInv
<1>4. CASE Eof \/ Reopen \/ UNCHANGED vars
  BY <1>4, RestInv
<1> QED
  BY <1>1, <1>2, <1>3, <1>4 DEF Next
-----------------------------------------------------------------------------
(* What the invariant says of the checked properties                       *)

LEMMA ReadTyped == ReadInv => TypeOK
<1> SUFFICES ASSUME ReadInv PROVE TypeOK
  OBVIOUS
<1>1. Typed(buf, stream, cur, pread, lines, dropped) /\ pc \in {"call", "read", "eof"}
      /\ starts \in Seq(Nat)
  BY DEF ReadInv, Whole
<1>2. dropped \subseteq Nat
  BY <1>1 DEF Typed
<1> QED
  BY <1>1, <1>2 DEF Typed, TypeOK

LEMMA ReadCursor == ReadInv => CursorInData
<1>1. ReadInv => (Unprompted => cur <= pread /\ buf[pread] = 0)
  BY DEF ReadInv, Whole, Tidy, Newest, Unprompted, Plain
<1>2. ReadInv => (pc # "call" => cur <= pread /\ buf[pread] = 0)
  BY DEF ReadInv
<1> QED
  BY <1>1, <1>2 DEF CursorInData

LEMMA ReadOnce == ReadInv => EachByteOnce
<1> SUFFICES ASSUME ReadInv PROVE EachByteOnce
  OBVIOUS
<1>0. /\ Typed(buf, stream, cur, pread, lines, dropped)
      /\ Covers(buf, stream, cur, pread, lines, dropped)
      /\ Plain(stream, lines) => Tidy(buf, stream, cur, pread, lines, dropped)
  BY DEF ReadInv, Whole
<1>1. Delivered = Got(lines) /\ Pending = Held(buf, cur, pread)
  BY DEF Delivered, Pending, Got, Held
<1>2. Unprompted <=> Plain(stream, lines)
  BY DEF Unprompted, Plain
<1>3. Received \subseteq Delivered \cup Pending \cup dropped
  BY <1>0, <1>1 DEF Covers, Received
<1>4. ASSUME Unprompted
      PROVE  /\ InOrder(lines) /\ Delivered \cap dropped = {}
             /\ (Delivered \cup dropped) \cap Pending = {}
  <2>1. Tidy(buf, stream, cur, pread, lines, dropped)
    BY <1>0, <1>2, <1>4
  <2>2. InOrder(lines) /\ Delivered \cap dropped = {}
    BY <1>1, <2>1 DEF Tidy
  <2>n. Len(stream) \in Nat /\ cur \in Nat /\ pread \in Nat
    <3>1. MaxResponse \in Nat /\ Len(stream) \in Nat
      BY <1>0, CharFacts
    <3>2. cur \in 0 .. (MaxResponse + 1) /\ pread \in Indices
      BY <1>0 DEF Typed
    <3> QED
      BY <3>1, <3>2 DEF Indices
  <2>g. \A x \in Got(lines) \cup dropped : x \in 1 .. Len(stream) /\ x + pread <= Len(stream) + cur
    <3>1. lines \in Seq(Seq(1 .. Len(stream))) /\ dropped \subseteq 1 .. Len(stream)
      BY <1>0 DEF Typed
    <3>2. Got(lines) \subseteq 1 .. Len(stream)
      BY <2>n, <3>1, GotFacts
    <3> QED
      BY <2>1, <3>1, <3>2 DEF Tidy, Before
  <2>3. ASSUME NEW x \in Got(lines) \cup dropped, x \in Held(buf, cur, pread) PROVE FALSE
    <3>1. PICK j \in cur .. (pread - 1) : x = buf[j]
      BY <2>3, HeldFacts
    <3>2. x + pread = Len(stream) + 1 + j
      BY <2>1, <3>1 DEF Tidy, Newest
    <3>3. x \in 1 .. Len(stream) /\ x + pread <= Len(stream) + cur
      BY <2>g, <2>3
    <3>4. j \in Nat /\ cur <= j
      BY <2>n
    <3> QED
      BY <2>n, <3>2, <3>3, <3>4
  <2> QED
    BY <1>1, <2>2, <2>3
<1> QED
  BY <1>3, <1>4 DEF EachByteOnce, InOrder

LEMMA ReadFramed == ReadInv => Framed
<1>1. ReadInv => (Unprompted => \A m \in DOMAIN lines : Line(lines[m], stream, dropped))
  BY DEF ReadInv, Whole, Tidy, Unprompted, Plain
<1> QED
  BY <1>1 DEF Framed, Line

\* readline() keeps its invariant, whatever the sizes of the buffer and of the chunks.
LEMMA Readline == Spec => []ReadInv
BY ReadInit, ReadNext, PTL DEF Spec

\* Type correctness: p_read stays inside s_ATBuffer, which always ends in a
\* '\0', and s_ATBufferCur is at most one past the buffer.  TypeOK does not say
\* that the cursor is inside it: that is the next theorem.
THEOREM TypeCorrect == Spec => []TypeOK
BY Readline, ReadTyped, PTL

\* The cursor is at most p_read, which is inside the buffer and holds a '\0',
\* whenever readline() is at read(), and at every call until a prompt has been
\* returned, for every MAX_AT_RESPONSE, every stream and chunking.
THEOREM AlwaysCursorInData == Spec => []CursorInData
BY Readline, ReadCursor, PTL

\* No byte of the modem's stream disappears, and up to the first prompt none
\* is returned twice and lines come in order, for every MAX_AT_RESPONSE, every
\* stream and every way read() cuts it into chunks.
THEOREM AlwaysEachByteOnce == Spec => []EachByteOnce
BY Readline, ReadOnce, PTL

\* A line that readline() returns is what stood between two line terminators.
THEOREM AlwaysFramed == Spec => []Framed
BY Readline, ReadFramed, PTL

\* readline() never waits for more while it holds a complete line or a prompt.
THEOREM NeverHeldBack == Spec => []NoLineHeldBack
<1>1. ReadInv => NoLineHeldBack
  BY DEF ReadInv
<1> QED
  BY <1>1, Readline, PTL
=============================================================================
