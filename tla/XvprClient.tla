----------------------------- MODULE XvprClient -----------------------------
(***************************************************************************)
(* The API functions of src/src/xbusiness_vpr.c at work: threads of one    *)
(* process, each with a handle of its own, call them; a call allocates its *)
(* buffer, saves a speech stream to a temporary file, posts a request,     *)
(* receives and parses the reply, and returns a code and its outputs.      *)
(* xvpr_remove_person and xvpr_update_person do that twice.                *)
(*                                                                         *)
(* Between two steps of a call the other threads, the clock, the network   *)
(* and the service move.                                                   *)
(***************************************************************************)
EXTENDS XvprApi, JsonReply, FiniteSets

CONSTANTS
  MaxCalls,      \* bound: calls per thread
  MaxTime,       \* bound: seconds that pass
  MaxLate,       \* bound: requests whose sender has given up, on their way
  ReplyFaults,   \* what may happen to a reply: "split", "gateway"
  WriteFaults,   \* what may happen to a temporary file: "open", "write"
  Absent         \* no such file

ASSUME ClientAssumption ==
  /\ MaxCalls \in Nat /\ MaxTime \in Nat /\ MaxLate \in Nat
  /\ ReplyFaults \subseteq {"split", "gateway"}
  /\ WriteFaults \subseteq {"open", "write"}
  /\ Absent \notin Content

VARIABLES
  pc,        \* where each thread is in its call
  call,      \* its call: function, handle, name and stream (or checksum)
  step,      \* which of the call's posts it is at
  path,      \* the temporary file of this call
  wire,      \* its connection: the request, then the reply
  ret,       \* the code its latest call returned
  out,       \* what its latest call wrote to its output parameters
  made,      \* how many calls it has made
  now,       \* time(NULL)
  files,     \* the content of the temporary files
  db,        \* the service's database
  late,      \* requests on their way whose sender has given up
  verdicts,  \* history: the service's answers to the posts of each call
  given      \* history: which recordings were given for which key

local  == <<pc, call, step, path, wire, ret, out, made, verdicts>>
shared == <<now, files, db, late, given>>
vars   == <<pc, call, step, path, wire, ret, out, made, now, files,
            db, late, verdicts, given>>
-----------------------------------------------------------------------------
Post(t) == Posts(call[t].op)[step[t]]

(* Variant: the file is named by its second alone.                         *)
PathOfSecond(c, sec) ==
  CASE c.op = "add_speech"    -> <<"register", CHOOSE n \in Name : TRUE, sec>>
    [] c.op = "verify_person" -> <<"verify", CHOOSE n \in Name : TRUE, sec>>
    [] OTHER                  -> <<"identify", CHOOSE g \in Group : TRUE, sec>>

(* Variant: the handle instead of the name.                                *)
PathOfHandle(c, sec) == <<"register", c.handle, sec>>

(* "./xbusiness-vpr/register_<name>_<seconds>.pcm" and so on.  Names and   *)
(* group ids are strings alike; the prefix tells the kinds apart.          *)
Path(c, sec) ==
  CASE c.op = "add_speech"      -> <<"register", c.name, sec>>
    [] c.op = "verify_person"   -> <<"verify", c.name, sec>>
    [] c.op = "identify_person" -> <<"identify", c.handle, sec>>

Seconds == 0 .. MaxTime

Paths == ({"register", "verify"} \X Name \X Seconds)
           \cup ({"identify"} \X Group \X Seconds)

NoPath == <<"", "", 0>>
Closed == [state |-> "closed"]
Inflight(q)    == [state |-> "request", q |-> q]
Verdict(a)     == [code |-> a.code, data |-> a.data]
Answered(a)    == [state |-> "reply", code |-> a.code, data |-> a.data]
Text(kind, c, d) == [state |-> kind, code |-> c, data |-> d]
-----------------------------------------------------------------------------
Init ==
  /\ pc = [t \in Thread |-> "idle"]
  /\ call = [t \in Thread |-> NoCall]
  /\ step = [t \in Thread |-> 1]
  /\ path = [t \in Thread |-> NoPath]
  /\ wire = [t \in Thread |-> Closed]
  /\ ret = [t \in Thread |-> NoCode]
  /\ out = [t \in Thread |-> NotWritten]
  /\ made = [t \in Thread |-> 0]
  /\ now = 0
  /\ files = [p \in Paths |-> Absent]
  /\ db = EmptyDatabase
  /\ late = {}
  /\ verdicts = [t \in Thread |-> << >>]
  /\ given = {}

(* A thread calls a function.                                              *)
Invoke(t) ==
  /\ pc[t] = "idle"
  /\ made[t] < MaxCalls
  /\ \E c \in Calls(t) :
       /\ call' = [call EXCEPT ![t] = c]
       /\ given' = IF c.op = "add_speech"
                   THEN given \cup {<<<<c.handle, c.name>>, c.speech>>}
                   ELSE given
  /\ pc' = [pc EXCEPT ![t] = "enter"]
  /\ step' = [step EXCEPT ![t] = 1]
  /\ path' = [path EXCEPT ![t] = NoPath]
  /\ ret' = [ret EXCEPT ![t] = NoCode]
  /\ out' = [out EXCEPT ![t] = NotWritten]
  /\ made' = [made EXCEPT ![t] = @ + 1]
  /\ verdicts' = [verdicts EXCEPT ![t] = << >>]
  /\ UNCHANGED <<wire, now, files, db, late>>

(* The return of a call, whichever step it happens at.                     *)
Return(t, code, output) ==
  /\ pc' = [pc EXCEPT ![t] = "idle"]
  /\ ret' = [ret EXCEPT ![t] = code]
  /\ out' = [out EXCEPT ![t] = output]
  /\ wire' = [wire EXCEPT ![t] = Closed]
  /\ UNCHANGED <<call, step, path, made, verdicts>>

(* calloc of the receive buffer, then curl_easy_init.                      *)
Allocate(t) ==
  /\ pc[t] = "enter"
  /\ pc' = [pc EXCEPT ![t] = IF Post(t) \in FilePosts THEN "open"
                                                      ELSE "perform"]
  /\ UNCHANGED <<call, step, path, wire, ret, out, made, verdicts>>
  /\ UNCHANGED shared

AllocateFails(t) ==
  /\ pc[t] = "enter"
  /\ Return(t, XVPR_CODE_FAIL, out[t])
  /\ UNCHANGED shared

(* xvpr_aid_write_buffer: fopen(path, "wb") creates or truncates the file; *)
(* its result and fwrite's are ignored by the callers.                     *)
OpenTemp(t) ==
  /\ pc[t] = "open"
  /\ LET p == Path(call[t], now)
     IN  /\ path' = [path EXCEPT ![t] = p]
         /\ files' = [files EXCEPT ![p] = Empty]
  /\ pc' = [pc EXCEPT ![t] = "fill"]
  /\ UNCHANGED <<call, step, wire, ret, out, made, verdicts>>
  /\ UNCHANGED <<now, db, late, given>>

OpenTempFails(t) ==
  /\ pc[t] = "open"
  /\ "open" \in WriteFaults
  /\ path' = [path EXCEPT ![t] = Path(call[t], now)]
  /\ pc' = [pc EXCEPT ![t] = "perform"]
  /\ UNCHANGED <<call, step, wire, ret, out, made, verdicts>>
  /\ UNCHANGED shared

(* fwrite and fclose: the stream is written from the start of the file.    *)
(* Whatever another writer of the same path left there shows through       *)
(* behind a shorter stream.                                                *)
Written(old, speech) ==
  IF old \in {Empty, speech} THEN {speech} ELSE {speech, Damaged}

FillTemp(t) ==
  /\ pc[t] = "fill"
  /\ \E c \in Written(files[path[t]], call[t].speech)
               \cup (IF "write" \in WriteFaults THEN {Empty, Damaged} ELSE {}) :
       files' = [files EXCEPT ![path[t]] = c]
  /\ pc' = [pc EXCEPT ![t] = "perform"]
  /\ UNCHANGED <<call, step, path, wire, ret, out, made, verdicts>>
  /\ UNCHANGED <<now, db, late, given>>

(* curl_easy_perform fails before the request is out: no handle, no        *)
(* address, no connection, no file to upload.                              *)
ConnectFails(t) ==
  /\ pc[t] = "perform"
  /\ Return(t, XVPR_CODE_CONNECT_ERR, out[t])
  /\ UNCHANGED shared

(* The file of an upload is read only now.                                 *)
Send(t) ==
  /\ pc[t] = "perform"
  /\ IF Post(t) \in FilePosts
     THEN /\ files[path[t]] # Absent
          /\ wire' = [wire EXCEPT ![t] =
                 Inflight(RequestOf(call[t], step[t], files[path[t]]))]
     ELSE wire' = [wire EXCEPT ![t] =
                 Inflight(RequestOf(call[t], step[t], call[t].speech))]
  /\ pc' = [pc EXCEPT ![t] = "wait"]
  /\ UNCHANGED <<call, step, path, ret, out, made, verdicts>>
  /\ UNCHANGED shared

(* The service answers a request whose sender still waits ...              *)
Serve(t) ==
  /\ pc[t] = "wait"
  /\ wire[t].state = "request"
  /\ \E a \in Answers(db, wire[t].q) :
       /\ db' = a.db
       /\ verdicts' = [verdicts EXCEPT ![t] = Append(@, Verdict(a))]
       /\ wire' = [wire EXCEPT ![t] = Answered(a)]
  /\ UNCHANGED <<pc, call, step, path, ret, out, made>>
  /\ UNCHANGED <<now, files, late, given>>

(* ... and one whose sender has given up.                                  *)
ServeLate ==
  /\ \E q \in late :
       /\ late' = late \ {q}
       /\ \E a \in Answers(db, q) : db' = a.db
  /\ UNCHANGED local
  /\ UNCHANGED <<now, files, given>>

(* The connection breaks while the call waits: the request is lost, or     *)
(* still reaches the service, or the reply is lost; so is a reply that the *)
(* write callback has no memory for.                                       *)
Lose(t) ==
  /\ pc[t] = "wait"
  /\ Return(t, XVPR_CODE_CONNECT_ERR, out[t])
  /\ \/ late' = late
     \/ /\ wire[t].state = "request"
        /\ Cardinality(late) < MaxLate
        /\ late' = late \cup {wire[t].q}
  /\ UNCHANGED <<now, files, db, given>>

(* Somebody else than the service answers, say with an HTML page: perform  *)
(* succeeds, CURLOPT_FAILONERROR is not set.                               *)
Gateway(t) ==
  /\ pc[t] = "wait"
  /\ "gateway" \in ReplyFaults
  /\ wire[t].state = "request"
  /\ wire' = [wire EXCEPT ![t] = Text("not_object", 0, NotWritten)]
  /\ pc' = [pc EXCEPT ![t] = "parse"]
  /\ UNCHANGED <<call, step, path, ret, out, made, verdicts>>
  /\ UNCHANGED shared

(* The write callback keeps the latest chunk of a reply (HttpReceive.tla): *)
(* of a reply that comes in several chunks, the parser sees a tail.  Only  *)
(* the reply to a find has an object in it, the person's.                  *)
Tails(t) ==
  IF "split" \notin ReplyFaults THEN {}
  ELSE {"not_object"} \cup
       {k \in {"inner"} : /\ Post(t) = "person/find"
                         /\ wire[t].code = XVPR_CODE_SUCCESS
                         /\ wire[t].data # [persons |-> 0]}

Receive(t) ==
  /\ pc[t] = "wait"
  /\ wire[t].state = "reply"
  /\ \E kind \in {"whole"} \cup Tails(t) :
       wire' = [wire EXCEPT ![t] = Text(kind, wire[t].code, wire[t].data)]
  /\ pc' = [pc EXCEPT ![t] = "parse"]
  /\ UNCHANGED <<call, step, path, ret, out, made, verdicts>>
  /\ UNCHANGED shared

-----------------------------------------------------------------------------
(* json_tokener_parse and what follows it.                                 *)
ParsedSuccess(t) == SuccessField(wire[t].state, wire[t].code)
ParsedCode(t)    == ErrorCodeField(wire[t].state, wire[t].code)

HoldsNobody(t) == /\ Post(t) = "person/find"
                  /\ ParsedSuccess(t)
                  /\ wire[t].data = [persons |-> 0]

ReadingCrashes(t) == \/ AccessCrashes(wire[t].state)
                     \/ HoldsNobody(t) /\ FirstOfNoneCrashes

IsLastPost(t) == step[t] = Len(Posts(call[t].op))

(* Variant: the result of the first post is ignored.                       *)
GoesOnAnyway(t) == TRUE

(* xvpr_remove_person goes on when the document says success;              *)
(* xvpr_update_person when xvpr_reserve_speeches returned 0, which it also *)
(* does when the document is none.                                         *)
GoesOn(t) == \/ ParsedSuccess(t)
             \/ call[t].op = "update_person" /\ ParsedCode(t) = 0

(* The output parameters, with the flag of nobody.                         *)
Outputs(t) ==
  OutputsOf(call[t], IF HoldsNobody(t) THEN [flag |-> FlagOfNone]
                                       ELSE wire[t].data)

(* The process dies, and its other threads with it.                        *)
ParseCrashes(t) ==
  /\ pc[t] = "parse"
  /\ ReadingCrashes(t)
  /\ pc' = [u \in Thread |-> "dead"]
  /\ UNCHANGED <<call, step, path, wire, ret, out, made, verdicts>>
  /\ UNCHANGED shared

ParseAndGoOn(t) ==
  /\ pc[t] = "parse"
  /\ ~ReadingCrashes(t)
  /\ ~IsLastPost(t)
  /\ GoesOn(t)
  /\ step' = [step EXCEPT ![t] = @ + 1]
  /\ wire' = [wire EXCEPT ![t] = Closed]
  /\ pc' = [pc EXCEPT ![t] = "enter"]
  /\ UNCHANGED <<call, path, ret, out, made, verdicts>>
  /\ UNCHANGED shared

(* Variant: the early return after a first post that failed is missing.    *)
ParseAndReturnAtTheEnd(t) ==
  /\ pc[t] = "parse"
  /\ ~ReadingCrashes(t)
  /\ IsLastPost(t)
  /\ IF ParsedSuccess(t)
     THEN Return(t, XVPR_CODE_SUCCESS, Outputs(t))
     ELSE Return(t, ParsedCode(t), out[t])
  /\ UNCHANGED shared

ParseAndReturn(t) ==
  /\ pc[t] = "parse"
  /\ ~ReadingCrashes(t)
  /\ IsLastPost(t) \/ ~GoesOn(t)
  /\ IF ParsedSuccess(t)
     THEN Return(t, XVPR_CODE_SUCCESS, Outputs(t))
     ELSE Return(t, ParsedCode(t), out[t])
  /\ UNCHANGED shared

Tick ==
  /\ now < MaxTime
  /\ now' = now + 1
  /\ UNCHANGED local
  /\ UNCHANGED <<files, db, late, given>>

(* What a call does by itself, and what it waits for.                      *)
Advance(t) == \/ Allocate(t) \/ AllocateFails(t)
              \/ OpenTemp(t) \/ OpenTempFails(t) \/ FillTemp(t)
              \/ ConnectFails(t) \/ Send(t)
              \/ ParseCrashes(t) \/ ParseAndGoOn(t) \/ ParseAndReturn(t)

Hear(t) == Serve(t) \/ Lose(t) \/ Gateway(t) \/ Receive(t)

Next ==
  \/ \E t \in Thread : Invoke(t) \/ Advance(t) \/ Hear(t)
  \/ ServeLate
  \/ Tick

(* The threads run, and a request is answered or its connection breaks in  *)
(* the end.  Nothing in the code bounds how long that takes.               *)
Fairness == \A t \in Thread : WF_vars(Advance(t)) /\ WF_vars(Hear(t))

Spec == Init /\ [][Next]_vars /\ Fairness
-----------------------------------------------------------------------------
Steps == {"idle", "enter", "open", "fill", "perform", "wait", "parse",
          "dead"}

ReturnCodes == ServiceCodes \cup {XVPR_CODE_SUCCESS, XVPR_CODE_FAIL,
                                 XVPR_CODE_CONNECT_ERR, NoCode}

WireOK(w) ==
  /\ w.state \in {"closed", "request", "reply"} \cup TextKinds
  /\ w.state = "request" => w.q \in Request
  /\ w.state \in {"reply"} \cup TextKinds
       => w.code \in ServiceCodes \cup {XVPR_CODE_SUCCESS}

(* The fields of replies and outputs differ from function to function:     *)
(* verdicts and out have no type of their own.                             *)
TypeOK ==
  /\ pc \in [Thread -> Steps]
  /\ call \in [Thread -> Call \cup {NoCall}]
  /\ step \in [Thread -> {1, 2}]
  /\ path \in [Thread -> Paths \cup {NoPath}]
  /\ wire = [t \in Thread |-> wire[t]]
  /\ \A t \in Thread : WireOK(wire[t])
  /\ ret \in [Thread -> ReturnCodes]
  /\ made \in [Thread -> 0 .. MaxCalls]
  /\ now \in Seconds
  /\ files \in [Paths -> Content \cup {Absent}]
  /\ db \in Database
  /\ late \subseteq Request
  /\ given \subseteq Key \X Content

Returned(t) == pc[t] = "idle" /\ ret[t] # NoCode

(* Whatever the network does to replies and files, a code of the service's *)
(* own (xbusiness_vpr.h:82-105) is returned only if the service refused    *)
(* the last request of this very call with that code.                      *)
CodeIsTheServices ==
  \A t \in Thread :
    Returned(t) /\ ret[t] \in ServiceCodes =>
      /\ verdicts[t] # << >>
      /\ verdicts[t][Len(verdicts[t])].code = ret[t]

(* XVPR_CODE_SUCCESS is "call succeed" (xbusiness_vpr.h:70,78): the        *)
(* service has carried out every request the function stands for.          *)
SuccessMeansDone ==
  \A t \in Thread :
    Returned(t) /\ ret[t] = XVPR_CODE_SUCCESS =>
      /\ Len(verdicts[t]) = Len(Posts(call[t].op))
      /\ \A i \in 1 .. Len(verdicts[t]) :
           verdicts[t][i].code = XVPR_CODE_SUCCESS

(* xvpr_update_person trains only after the service has trimmed the        *)
(* speeches, xvpr_remove_person trims only after it has deleted; and no    *)
(* post is ever made twice.                                                *)
PostsInOrder ==
  \A t \in Thread :
    pc[t] # "idle" =>
      /\ Len(verdicts[t]) \in {step[t] - 1, step[t]}
      /\ \A i \in 1 .. step[t] - 1 : verdicts[t][i].code = XVPR_CODE_SUCCESS

(* An upload is the stream its caller passed, although it goes through a   *)
(* file that other threads may open: this is about requests on the wire    *)
(* and about those that arrive late.                                       *)
UploadIsTheStream ==
  \A t \in Thread :
    pc[t] = "wait" /\ wire[t].state = "request"
      => wire[t].q.file = call[t].speech

(* No speech is ever enrolled for a person that nobody recorded for that   *)
(* person ("add a speech for the speaker", xbusiness_vpr.h:186).           *)
EnrolledAsGiven ==
  \A k \in Key : \A i \in 1 .. Len(db.speeches[k]) :
    <<k, db.speeches[k][i]>> \in given

(* Output parameters are written by successful calls only, and the         *)
(* checksum that xvpr_add_speech returns is that of the caller's stream.   *)
OutputsAreTrue ==
  \A t \in Thread :
    Returned(t) =>
      /\ out[t] # NotWritten => ret[t] = XVPR_CODE_SUCCESS
      /\ call[t].op = "add_speech" /\ ret[t] = XVPR_CODE_SUCCESS
           => out[t] = [md5 |-> call[t].speech]

(* Every call returns, unless the process dies.                            *)
CallReturns ==
  \A t \in Thread : pc[t] # "idle" ~> pc[t] \in {"idle", "dead"}

-----------------------------------------------------------------------------
(* Threads that never write the same temporary file: those that add or     *)
(* verify speeches have names of their own, those that identify have       *)
(* groups of their own.                                                    *)
OwnFiles ==
  \A t, u \in Thread : t # u =>
    \A k \in Serves[t], l \in Serves[u] :
      /\ {"add_speech", "verify_person"} \cap Ops # {} => k[2] # l[2]
      /\ "identify_person" \in Ops => k[1] # l[1]

(* The inductive invariant behind EnrolledAsGiven, thread by thread: from  *)
(* the opening of its file to the upload, a call's file is its own and     *)
(* holds nothing or its stream.                                            *)
Busy(t) == pc[t] \notin {"idle", "dead"}

OwnPath(t) == \E s \in Seconds : path[t] = Path(call[t], s)

CallInv(t) ==
  Busy(t) =>
    /\ call[t] \in Calls(t)
    /\ step[t] \in 1 .. Len(Posts(call[t].op))
    /\ call[t].op = "add_speech"
         => <<<<call[t].handle, call[t].name>>, call[t].speech>> \in given

FileInv(t) ==
  /\ pc[t] \in {"open", "fill"} => Post(t) \in FilePosts
  /\ pc[t] = "fill" => OwnPath(t) /\ files[path[t]] = Empty
  /\ pc[t] = "perform" /\ Post(t) \in FilePosts
       => OwnPath(t) /\ files[path[t]] = call[t].speech

RequestInv(t) ==
  pc[t] = "wait" /\ wire[t].state = "request"
    => wire[t].q = RequestOf(call[t], step[t], call[t].speech)

ThreadInv(t) == CallInv(t) /\ FileInv(t) /\ RequestInv(t)

LateInv == \A q \in late : q.post = "speech/add"
                              => <<KeyOf(q), q.file>> \in given

UploadInv == /\ TypeOK
             /\ \A t \in Thread : ThreadInv(t)
             /\ LateInv
             /\ EnrolledAsGiven

(* The calls implement what ApiContract.tla promises: a call in progress   *)
(* is a busy thread; buffers, files and connections are its inside.        *)
Contract == INSTANCE ApiContract WITH busy <- [t \in Thread |-> pc[t] # "idle"]

ImplementsContract == Contract!Spec
=============================================================================
