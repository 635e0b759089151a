------------------------------- MODULE XvprApi -------------------------------
(***************************************************************************)
(* The API functions of src/src/xbusiness_vpr.c as a table: the arguments  *)
(* each takes, the requests each stands for and the outputs each writes.   *)
(* XvprClient.tla says how a call does its work; ApiContract.tla says what *)
(* its caller may rely on.                                                 *)
(***************************************************************************)
EXTENDS VoiceprintServer

CONSTANTS
  Thread,        \* the threads that call the API
  Serves,        \* Serves[t]: the keys that thread t makes calls for
  Ops            \* the API functions that are called

API == {"create_person", "remove_person", "get_info", "add_speech",
        "remove_speech", "reserve_speeches", "register_person",
        "update_person", "verify_person", "identify_person"}

ASSUME ApiAssumption ==
  /\ Serves \in [Thread -> SUBSET Key]
  /\ Ops \subseteq API

(* The handle is the pointer the caller passed to xvpr_client_init.        *)
ClientInit(collection) == collection

(* The posts a function makes, in their order.                             *)
Posts(op) ==
  CASE op = "create_person"    -> <<"person/create">>
    [] op = "remove_person"    -> <<"person/delete", "speech/reserve">>
    [] op = "get_info"         -> <<"person/find">>
    [] op = "add_speech"       -> <<"speech/add">>
    [] op = "remove_speech"    -> <<"speech/delete">>
    [] op = "reserve_speeches" -> <<"speech/reserve">>
    [] op = "register_person"  -> <<"model/train">>
    [] op = "update_person"    -> <<"speech/reserve", "model/train">>
    [] op = "verify_person"    -> <<"model/verify">>
    [] op = "identify_person"  -> <<"model/identify_2">>

(* The stream of a call, or the checksum of remove_speech; Empty if the    *)
(* function takes neither.                                                 *)
TakesSpeech(op) == op \in {"add_speech", "verify_person", "identify_person"}

Streams(op) ==
  IF TakesSpeech(op) \/ op = "remove_speech" THEN Recording ELSE {Empty}

Call == [op : API, handle : Group, name : Name,
         speech : Recording \cup {Empty}]

Calls(t) ==
  {c \in Call : /\ c.op \in Ops
                /\ \E k \in Serves[t] : /\ c.handle = ClientInit(k[1])
                                        /\ c.name = k[2]
                /\ c.speech \in Streams(c.op)}

(* Variant: the name field of every request is the same.                   *)
RequestOfOneName(c, i, content) ==
  [post |-> Posts(c.op)[i], id |-> c.handle, name |-> CHOOSE n \in Name : TRUE,
   file |-> content]

(* The i-th request of a call whose upload holds content.                  *)
RequestOf(c, i, content) ==
  [post |-> Posts(c.op)[i], id |-> c.handle, name |-> c.name,
   file |-> content]

(* What a call writes to its output parameters, from the fields d of the   *)
(* last reply.  verify_person repeats its arguments, identify_person       *)
(* copies the service's candidate.                                         *)
NotWritten == [none |-> FALSE]

OutputsOf(c, d) ==
  CASE c.op = "add_speech"      -> [md5 |-> d.md5]
    [] c.op = "get_info"        -> [who  |-> <<c.handle, c.name>>,
                                    flag |-> d.flag]
    [] c.op = "verify_person"   -> [who     |-> <<c.handle, c.name>>,
                                    similar |-> d.similar]
    [] c.op = "identify_person" -> [who |-> d.who, similar |-> d.similar]
    [] OTHER                    -> NotWritten

NoCall == [op |-> "none"]
NoCode == 9999                  \* no call has returned yet
=============================================================================
