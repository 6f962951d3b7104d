------------------------------ MODULE Clients ------------------------------
(***************************************************************************)
(* Calls of a database (sql.go, sql_driver.go) and of the AWS SDK          *)
(* (contrib/awsv2/awsv2.go): library calls that may take several attempts. *)
(*                                                                         *)
(* database/sql asks a connection to run a statement directly, through     *)
(* ExecerContext or else through Execer; when the driver offers neither or *)
(* answers ErrSkip, it prepares the statement and runs that.  On           *)
(* ErrBadConn it starts over with another connection.  A query and an      *)
(* execution go the same way.                                              *)
(***************************************************************************)
EXTENDS Tracing

CONSTANT MaxTries  \* bound: attempts of one call

\* How a driver whose connections offer these interfaces runs a statement.
Second(offers) == IF "legacy" \in offers THEN "legacy" ELSE "prepared"
First(offers) == IF "context" \in offers THEN "context" ELSE Second(offers)

InStatement(g) == ~Idle(g) /\ Top(g).at \in {"context", "legacy", "prepared"}

\* startSQLSpan: no span without one around it.
StartSQLSpan(op, ctx, cause) ==
  IF Valid(ctx) THEN <<StartSpan(op, ctx, cause)>> ELSE <<>>

(* One attempt, above the calls of "under": a span of its own, unless the     *)
(* arguments cannot be converted for Execer, or the statement not prepared.   *)
Attempt(g, under, how, offers, tries, store) ==
  LET ctx == Ambient(g)
      op == IF how = "prepared" THEN "stmt" ELSE "exec"
      new == StartSQLSpan(op, ctx, Innermost(under))
      own == {Len(store) + i : i \in DOMAIN new} IN
  \/ /\ Len(store) + Len(new) <= MaxSpans
     /\ spans' = store \o new
     /\ calls' = [calls EXCEPT ![g] =
          Append(under, [Frame(op, own, ctx, how, offers) EXCEPT !.tries = tries])]
  \/ /\ how # "context"
     /\ spans' = store
     /\ calls' = [calls EXCEPT ![g] = under]

\* DB.ExecContext and DB.QueryContext.
Statement(g) ==
  /\ CanCall(g, "sql")
  /\ \E offers \in SUBSET {"context", "legacy"} :
       Attempt(g, calls[g], First(offers), offers, 1, spans)
  /\ ended' = {}
  /\ UNCHANGED bound

Retry(g, store) ==
  /\ Top(g).tries < MaxTries
  /\ Attempt(g, Front(calls[g]), First(Top(g).ref), Top(g).ref, Top(g).tries + 1, store)

\* The driver has run the statement, or says that its connection is bad.
StatementReturns(g) ==
  /\ InStatement(g)
  /\ \/ \E result \in {"ok", "error"} : End(g, Status(result), "none", result)
     \/ /\ Retry(g, Marked(Top(g).own, "recorded"))
        /\ ended' = Record(Top(g), "error", "none", "error")
  /\ UNCHANGED bound

(* The driver answers ErrSkip: abandonSpan, and it is asked in the next way.  *)
StatementSkips(g) ==
  /\ InStatement(g) /\ Top(g).at # "prepared"
  /\ LET next == IF Top(g).at = "context" THEN Second(Top(g).ref) ELSE "prepared"
         store == Marked(Top(g).own, "abandoned") IN
     \/ Attempt(g, Front(calls[g]), next, Top(g).ref, Top(g).tries, store)
     \/ next = "prepared" /\ Retry(g, store)
  /\ ended' = {}
  /\ UNCHANGED bound

-----------------------------------------------------------------------------
(* The AWS SDK: one span around all attempts. *)

\* spanMiddleware.
CallAws(g) ==
  /\ CanCall(g, "aws")
  /\ Begin(g, StartSpan("aws", Ambient(g), Enclosing(g)), "library", {})
  /\ UNCHANGED bound

\* responseMiddleware: a response, if there is one, leaves its status code on
\* the span.
Response(f, code) == IF code = "none" THEN f.code ELSE code

\* An attempt ends, with a response or without; the SDK may try again.
AwsAttempt(g) ==
  /\ InLibrary(g, {"aws"})
  /\ \E code \in {"none", "ok", "failed"} :
       LET left == Response(Top(g), code) IN
       \/ code = "ok" /\ End(g, "ok", left, "ok")
       \/ End(g, "error", left, "error")
       \/ /\ Top(g).tries < MaxTries
          /\ Replace(g, [Top(g) EXCEPT !.code = left, !.tries = @ + 1])
          /\ ended' = {}
          /\ UNCHANGED spans
  /\ UNCHANGED bound
=============================================================================
