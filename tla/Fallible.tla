------------------------------ MODULE Fallible ------------------------------
(***************************************************************************)
(* Storage code that may fail at every call.                               *)
(*                                                                         *)
(* Both halves of a pairing live in storage whose single calls are atomic  *)
(* and durable, but which are strung together by code that returns at the  *)
(* first error (Rust's `?`): keystore entries on the phone, renamed and    *)
(* fsynced files on the desktop.  A routine is the SET of its outcomes:    *)
(* records of the storage it leaves behind (st) and of its result (ok).    *)
(*                                                                         *)
(* A call that fails may have failed before or after its effect (a rename  *)
(* whose directory fsync reports an error, a keystore commit whose reply   *)
(* is lost), so a write has three outcomes.  A process that dies between   *)
(* two calls leaves the same storage as a routine that stops there, which  *)
(* is how the crash actions of the modules below reach every cut.          *)
(***************************************************************************)

Ok(s)   == {[st |-> s, ok |-> TRUE]}
Fail(s) == {[st |-> s, ok |-> FALSE]}

\* One durable call that takes storage s to t.
Write(s, t) == Ok(t) \cup Fail(t) \cup Fail(s)

\* `first?; next` : next runs on what first left behind, unless first failed.
Then(first, next(_)) ==
    UNION { IF o.ok THEN next(o.st) ELSE {o} : o \in first }

\* `if let Err(e) = op { warn!(..) }` : the error is logged and forgotten.
Attempt(op) == { [o EXCEPT !.ok = TRUE] : o \in op }

=============================================================================
