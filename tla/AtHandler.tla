----------------------------- MODULE AtHandler -----------------------------
(***************************************************************************)
(* The language in which the functions of the two RILs are written.  A     *)
(* function is the list of what it does to the AT channel, to its          *)
(* ATResponse pointer, to the request it serves and to the globals of the  *)
(* RIL; everything else is left out, and a test on data the model does not *)
(* carry is a choice.  A function returns at the end of its list.  "goto   *)
(* error" is a jump to another list, usually bound by a LET.               *)
(***************************************************************************)
EXTENDS Integers, Sequences

\* A function whose ATResponse pointer starts as NULL ("null") or is left
\* without a value ("uninit").
Fn(init, body) == [init |-> init, body |-> body]

\* at_send_command*(): kind tells which one.  The outcome is success, err = 0
\* without success (fail) or err < 0 (err); the function goes on with the list
\* of the outcome, and after it with its own list if the outcome is in back.
Command(kind, ok, fail, err, back) ==
  [op |-> "send", kind |-> kind, back |-> back,
   to |-> [ok |-> ok, fail |-> fail, err |-> err]]

Send(kind, fail, err) == Command(kind, <<>>, fail, err, {"ok"})

\* The usual test "if (err < 0 || p_response->success == 0)".
Try(kind, bad) == Send(kind, bad, bad)

\* The test "if (err < 0)": a refusal by the modem is taken for success.
Check(kind, bad) == Command(kind, <<>>, <<>>, bad, {"ok", "fail"})

\* "if (err < 0 || p_response->success == 0) bad else ok", and go on.
Case(kind, ok, bad) == Command(kind, ok, bad, bad, {"ok", "fail", "err"})

\* A command whose result nobody looks at (pp_outResponse is NULL).
Tell == Case("null", <<>>, <<>>)
Tells(n) == [i \in 1..n |-> Tell]

\* at_response_free(p_response), and p_response = NULL.
Free == [op |-> "free"]
Null == [op |-> "null"]

\* p_response is dereferenced (Deref), its first intermediate line too (Line).
Deref == [op |-> "deref"]
Line == [op |-> "line"]

\* Memory is read or written that belongs to nobody: past the end of a table,
\* or through a pointer that was not set.
Wild == [op |-> "wild"]

\* RIL_onRequestComplete(), without and with data that lies in the response.
Done == [op |-> "done"]
Reply == [op |-> "reply"]

\* A call: the caller goes on when the callee has returned.
Call(f) == [op |-> "call", f |-> f]

\* Branches on data: a jump to one of the lists, a jump that may be taken,
\* one of several lists before going on.
Goto(S) == [op |-> "goto", S |-> S]
Maybe(L) == [op |-> "maybe", L |-> L]
Either(S) == [op |-> "either", S |-> S]

\* Globals of the RIL: assignment, increment, and one of two lists before
\* going on.
Set(f, v) == [op |-> "set", f |-> f, v |-> v]
Inc(f) == [op |-> "inc", f |-> f]
If(f, v, yes, no) == [op |-> "if", f |-> f, v |-> v, yes |-> yes, no |-> no]

\* The result a function leaves for its caller, and the caller's jump on it.
Result(v) == Set("ret", v)
Returned(v, L) == If("ret", v, <<Goto({L})>>, <<>>)

\* The modem was put into a state that the function has to take back (owed).
Borrow(kind, bad) ==
  Command(kind, <<Set("owed", TRUE)>>, <<>>, bad, {"ok", "fail"})
GiveBack(kind, bad) ==
  Command(kind, <<Set("owed", FALSE)>>, <<>>, bad, {"ok", "fail"})

\* The endings most functions have.
DoneFree == <<Done, Free>>
FreeDone == <<Free, Done>>
Return == <<>>
=============================================================================
