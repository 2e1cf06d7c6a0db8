----------------------------- MODULE ATReadline -----------------------------
(***************************************************************************)
(* readline() and findNextEOL() of atchannel.c: the framing of the modem's *)
(* byte stream into lines, in the one static buffer s_ATBuffer.            *)
(*                                                                         *)
(* A byte of the buffer is the position, in everything ever received, of   *)
(* the byte it holds, and 0 for '\0'.  So the model knows of every byte    *)
(* whether it was delivered, and whether it was delivered twice.  '\r' and *)
(* '\n' are treated alike by the code and are both "eol"; the modem sends  *)
(* text, which has no '\0'.                                                *)
(***************************************************************************)
EXTENDS Naturals, Sequences, FiniteSets, FiniteSetsExt

CONSTANTS
  MaxResponse, \* MAX_AT_RESPONSE
  Alphabet,    \* the characters the modem sends
  MaxStream,   \* bound: bytes received
  MaxSessions  \* bound: calls of at_open

ASSUME ReadlineAssumption ==
  /\ MaxResponse \in Nat \ {0}
  /\ Alphabet \subseteq {"a", "eol", ">", "sp"}
  /\ MaxStream \in Nat
  /\ MaxSessions \in Nat \ {0}

VARIABLES
  buf,      \* s_ATBuffer, MaxResponse + 1 bytes
  cur,      \* s_ATBufferCur
  pread,    \* p_read; between calls, the end of the data in the buffer
  pc,       \* "call": between calls; "read": in read(); "eof": returned NULL
  stream,   \* history: every character received
  starts,   \* history: where the sessions begin in stream
  lines,    \* history: the lines returned, as sequences of positions
  dropped   \* history: the bytes ditched

vars == <<buf, cur, pread, pc, stream, starts, lines, dropped>>

NULL == MaxResponse + 1
Indices == 0 .. MaxResponse

Init ==
  /\ buf = [j \in Indices |-> 0]
  /\ cur = 0 /\ pread = 0
  /\ pc = "call"
  /\ stream = <<>> /\ starts = <<1>> /\ lines = <<>> /\ dropped = {}
-----------------------------------------------------------------------------
\* the character in byte j of the buffer b when st has been received
Char(b, st, j) == IF b[j] = 0 THEN "nul" ELSE st[b[j]]

\* mutant: leading newlines are not skipped
SkipNothing(b, st, i) == i

\* while (*s_ATBufferCur == '\r' || *s_ATBufferCur == '\n') s_ATBufferCur++
SkipNewlines(b, st, i) == Min({j \in i .. MaxResponse : Char(b, st, j) # "eol"})

\* cur[0] == '>' && cur[1] == ' ' && cur[2] == '\0'
IsPrompt(b, st, i) ==
  /\ i + 2 <= MaxResponse
  /\ Char(b, st, i) = ">"
  /\ Char(b, st, i + 1) = "sp"
  /\ Char(b, st, i + 2) = "nul"

\* mutant: the SMS prompt is not special
FindNewline(b, st, i) ==
  LET stop == Min({j \in i .. MaxResponse : Char(b, st, j) \in {"nul", "eol"}})
  IN IF Char(b, st, stop) = "eol" THEN stop ELSE NULL

findNextEOL(b, st, i) ==
  LET stop == Min({j \in i .. MaxResponse : Char(b, st, j) \in {"nul", "eol"}})
  IN CASE IsPrompt(b, st, i) -> i + 2
       [] ~IsPrompt(b, st, i) /\ Char(b, st, stop) = "eol" -> stop
       [] OTHER -> NULL

Strlen(b, i) == Min({j \in i .. MaxResponse : b[j] = 0}) - i

\* The line from c to the end of line e is returned.
Deliver(b, c, e) ==
  /\ lines' = Append(lines, [k \in 1 .. (e - c) |-> b[c + k - 1]])
  /\ buf' = [b EXCEPT ![e] = 0]
  /\ cur' = e + 1
  /\ pc' = "call"

\* readline() is called: the buffer is used up, or holds a complete line,
\* or holds the beginning of one, which is moved to the front.  Beyond the
\* end of the array the behaviour is undefined, and the model stops there.
Call ==
  /\ pc = "call"
  /\ cur \in Indices
  /\ \/ /\ buf[cur] = 0
        /\ buf' = [buf EXCEPT ![0] = 0]
        /\ cur' = 0 /\ pread' = 0
        /\ pc' = "read"
        /\ UNCHANGED lines
     \/ /\ buf[cur] # 0
        /\ LET c == SkipNewlines(buf, stream, cur)
               e == findNextEOL(buf, stream, c)
               len == Strlen(buf, c)
           IN \/ /\ e # NULL
                 /\ Deliver(buf, c, e)
                 /\ UNCHANGED pread
              \/ /\ e = NULL
                 /\ buf' = [j \in Indices |-> IF j <= len THEN buf[c + j]
                                                          ELSE buf[j]]
                 /\ cur' = 0 /\ pread' = len
                 /\ pc' = "read"
                 /\ UNCHANGED lines
  /\ UNCHANGED <<stream, starts, dropped>>

\* mutant: s_ATBufferCur is not reset
DitchKeepsCursor ==
  /\ pc = "read"
  /\ pread = MaxResponse
  /\ dropped' = dropped \cup {buf[j] : j \in cur .. (MaxResponse - 1)}
  /\ buf' = [buf EXCEPT ![0] = 0]
  /\ pread' = 0
  /\ UNCHANGED <<cur, pc, stream, starts, lines>>

\* The buffer is full and holds no complete line: it is ditched.
Ditch ==
  /\ pc = "read"
  /\ pread = MaxResponse
  /\ dropped' = dropped \cup {buf[j] : j \in cur .. (MaxResponse - 1)}
  /\ buf' = [buf EXCEPT ![0] = 0]
  /\ cur' = 0 /\ pread' = 0
  /\ UNCHANGED <<pc, stream, starts, lines>>

\* read() returns a chunk.
Read(chunk) ==
  LET n == Len(chunk)
      st == stream \o chunk
      b == [j \in Indices |->
              CASE j \in pread .. (pread + n - 1) ->
                     Len(stream) + 1 + j - pread
                [] j = pread + n -> 0
                [] OTHER -> buf[j]]
      c == SkipNewlines(b, st, cur)
      e == findNextEOL(b, st, c)
  IN /\ pc = "read"
     /\ stream' = st
     /\ pread' = pread + n
     /\ \/ /\ e # NULL
           /\ Deliver(b, c, e)
        \/ /\ e = NULL
           /\ buf' = b
           /\ cur' = c
           /\ UNCHANGED <<pc, lines>>
     /\ UNCHANGED <<starts, dropped>>

\* read() returns 0 or an error; readline() returns NULL and the reader
\* thread ends.
Eof ==
  /\ pc = "read"
  /\ pread < MaxResponse
  /\ pc' = "eof"
  /\ UNCHANGED <<buf, cur, pread, stream, starts, lines, dropped>>

\* at_open() starts a new reader thread; it leaves the buffer as it is.
Reopen ==
  /\ pc = "eof"
  /\ Len(starts) < MaxSessions
  /\ starts' = Append(starts, Len(stream) + 1)
  /\ pc' = "call"
  /\ UNCHANGED <<buf, cur, pread, stream, lines, dropped>>

Next ==
  \/ Call
  \/ Ditch
  \/ \E n \in 1 .. (MaxResponse - pread) :
       /\ Len(stream) + n <= MaxStream
       /\ \E chunk \in [1 .. n -> Alphabet] : Read(chunk)
  \/ Eof
  \/ Reopen

Spec == Init /\ [][Next]_vars
-----------------------------------------------------------------------------
(* Properties                                                              *)

\* Type correctness: p_read stays inside the buffer, and the byte after the
\* last one that read() may fill stays '\0'.  s_ATBufferCur may be one past
\* the buffer.
TypeOK ==
  /\ buf \in [Indices -> 0 .. Len(stream)]
  /\ buf[MaxResponse] = 0
  /\ cur \in 0 .. (MaxResponse + 1)
  /\ pread \in Indices
  /\ pc \in {"call", "read", "eof"}
  /\ stream \in Seq(Alphabet)
  /\ starts \in Seq(Nat)
  /\ lines \in Seq(Seq(1 .. Len(stream)))
  /\ dropped \subseteq Nat

Positions(ln) == {ln[k] : k \in DOMAIN ln}
Delivered == UNION {Positions(lines[k]) : k \in DOMAIN lines}
Pending == {buf[j] : j \in cur .. (pread - 1)}
Received == {i \in DOMAIN stream : stream[i] # "eol"}

\* no "> " was returned yet: after an SMS prompt the cursor may stand on
\* what an earlier read left in the buffer
Unprompted ==
  \A m \in DOMAIN lines :
    [k \in DOMAIN lines[m] |-> stream[lines[m][k]]] # <<">", "sp">>

\* s_ATBufferCur stays in the data that was read, so that the searches that
\* start at it end at the '\0' at p_read: always while readline() is at
\* read(), after a ditched line, a partial line that was moved and an end of
\* file too, and at a call of readline() up to the first prompt.
CursorInData ==
  (Unprompted \/ pc # "call") => cur <= pread /\ buf[pread] = 0

\* No byte disappears: what was received and is no line terminator was
\* returned in a line, is in the buffer between s_ATBufferCur and p_read,
\* or was ditched with an overlong line.  Up to the first prompt it is only
\* one of these and lines are returned in the order received, whatever the
\* sizes of the chunks that read() returned and however often a partial
\* line was moved to the front of the buffer.
EachByteOnce ==
  /\ Received \subseteq Delivered \cup Pending \cup dropped
  /\ Unprompted =>
       /\ \A k, m \in DOMAIN lines :
            \A x \in Positions(lines[k]), y \in Positions(lines[m]) :
              k < m => x < y
       /\ (Delivered \cup dropped) \cap Pending = {}
       /\ Delivered \cap dropped = {}

\* A line is what stood between two line terminators: it contains none, it
\* is not empty, a terminator follows it, and one precedes it unless the
\* stream begins there or the bytes before it were ditched (up to the first
\* prompt).
Framed ==
  Unprompted => \A m \in DOMAIN lines :
    LET ln == lines[m]
        first == ln[1]
        last == ln[Len(ln)]
    IN /\ ln # <<>>
       /\ \A k \in DOMAIN ln : ln[k] = first + k - 1 /\ stream[ln[k]] # "eol"
       /\ stream[last + 1] = "eol"
       /\ first > 1 => stream[first - 1] = "eol" \/ first - 1 \in dropped

\* readline() never blocks in read() on a complete line: while it waits for
\* more, no terminator follows the cursor and the rest is no "> " prompt.
NoLineHeldBack ==
  pc \in {"read", "eof"} =>
    /\ \A j \in cur .. (pread - 1) : Char(buf, stream, j) # "eol"
    /\ ~IsPrompt(buf, stream, cur)

=============================================================================
