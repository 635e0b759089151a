----------------------------- MODULE ApiContract -----------------------------
(***************************************************************************)
(* What the API of xbusiness_vpr.h promises its callers, with no buffers,  *)
(* files, connections or texts: a call stands for a fixed sequence of      *)
(* requests; each is put to the service at most once, in order, and only   *)
(* if the one before it was carried out; an upload is the caller's stream; *)
(* and the code a call returns tells what became of them.  The latest      *)
(* request of a call that returns a connection error may still arrive, at  *)
(* any time after.                                                         *)
(***************************************************************************)
EXTENDS XvprApi

VARIABLES
  busy,      \* busy[t]: thread t is in a call
  call,      \* its call
  verdicts,  \* what the service answered to the call's requests
  ret,       \* the code of the latest call
  out,       \* the outputs of the latest call
  db,        \* the service's database
  late       \* requests on their way whose call has returned

vars == <<busy, call, verdicts, ret, out, db, late>>

Asked(t) == Len(verdicts[t])

AllCarriedOut(t) ==
  \A i \in 1 .. Asked(t) : verdicts[t][i].code = XVPR_CODE_SUCCESS

MoreToAsk(t) == Asked(t) < Len(Posts(call[t].op))

NextRequest(t) == RequestOf(call[t], Asked(t) + 1, call[t].speech)
-----------------------------------------------------------------------------
Init ==
  /\ busy = [t \in Thread |-> FALSE]
  /\ call = [t \in Thread |-> NoCall]
  /\ verdicts = [t \in Thread |-> << >>]
  /\ ret = [t \in Thread |-> NoCode]
  /\ out = [t \in Thread |-> NotWritten]
  /\ db = EmptyDatabase
  /\ late = {}

Begin(t) ==
  /\ ~busy[t]
  /\ busy' = [busy EXCEPT ![t] = TRUE]
  /\ \E c \in Calls(t) : call' = [call EXCEPT ![t] = c]
  /\ verdicts' = [verdicts EXCEPT ![t] = << >>]
  /\ ret' = [ret EXCEPT ![t] = NoCode]
  /\ out' = [out EXCEPT ![t] = NotWritten]
  /\ UNCHANGED <<db, late>>

Ask(t) ==
  /\ busy[t]
  /\ AllCarriedOut(t)
  /\ MoreToAsk(t)
  /\ \E a \in Answers(db, NextRequest(t)) :
       /\ db' = a.db
       /\ verdicts' = [verdicts EXCEPT ![t] =
                         Append(@, [code |-> a.code, data |-> a.data])]
  /\ UNCHANGED <<busy, call, ret, out, late>>

End(t, code) ==
  /\ busy' = [busy EXCEPT ![t] = FALSE]
  /\ ret' = [ret EXCEPT ![t] = code]
  /\ UNCHANGED <<call, verdicts, db>>

Succeed(t) ==
  /\ busy[t]
  /\ AllCarriedOut(t)
  /\ ~MoreToAsk(t)
  /\ End(t, XVPR_CODE_SUCCESS)
  /\ out' = [out EXCEPT ![t] =
               OutputsOf(call[t], verdicts[t][Asked(t)].data)]
  /\ UNCHANGED late

PassOnRefusal(t) ==
  /\ busy[t]
  /\ ~AllCarriedOut(t)
  /\ End(t, verdicts[t][Asked(t)].code)
  /\ UNCHANGED <<out, late>>

(* No memory: the next request has not been put to the service.            *)
Fail(t) ==
  /\ busy[t]
  /\ AllCarriedOut(t)
  /\ MoreToAsk(t)
  /\ End(t, XVPR_CODE_FAIL)
  /\ UNCHANGED <<out, late>>

(* A connection error leaves open whether the latest request was served,   *)
(* is lost, or will still be served.                                       *)
ConnectError(t) ==
  /\ busy[t]
  /\ End(t, XVPR_CODE_CONNECT_ERR)
  /\ \/ late' = late
     \/ /\ AllCarriedOut(t)
        /\ MoreToAsk(t)
        /\ late' = late \cup {NextRequest(t)}
  /\ UNCHANGED out

Arrive ==
  /\ \E q \in late :
       /\ late' = late \ {q}
       /\ \E a \in Answers(db, q) : db' = a.db
  /\ UNCHANGED <<busy, call, verdicts, ret, out>>

Next ==
  \/ \E t \in Thread :
       \/ Begin(t) \/ Ask(t)
       \/ Succeed(t) \/ PassOnRefusal(t) \/ Fail(t) \/ ConnectError(t)
  \/ Arrive

Spec == Init /\ [][Next]_vars
=============================================================================
