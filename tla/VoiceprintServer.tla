-------------------------- MODULE VoiceprintServer --------------------------
(***************************************************************************)
(* The voiceprint service the SDK talks to, as operators on its database.  *)
(* The service is not part of the repository: it is modelled from the      *)
(* requests xbusiness_vpr.c sends it, the fields it reads from the replies *)
(* and the error table of xbusiness_vpr.h:75-106.  Where those leave it    *)
(* open what the service does, Answers offers every choice.                *)
(*                                                                         *)
(* A recording is what the service hears in an uploaded file.  Its MD5 is  *)
(* the recording itself: all that the SDK does with a checksum is to hand  *)
(* it back to the service.                                                 *)
(***************************************************************************)
EXTENDS Naturals, Sequences

CONSTANTS
  Group,         \* collection ids ("id" of a request)
  Name,          \* speaker names
  Recording,     \* what callers record
  Empty,         \* the content of a file that was just created or truncated
  Damaged,       \* any other content that no caller recorded
  Reserve,       \* "number" of a reserve request: 3 in the code
  Outages,       \* codes 1001..1006 the service may answer at any time
  EmptyFinds     \* whether a find that matches nobody may be answered with
                 \* success and an empty list

ASSUME ServerAssumption ==
  /\ Empty \notin Recording
  /\ Damaged \notin Recording
  /\ Empty # Damaged
  /\ Reserve \in Nat \ {0}
  /\ Outages \subseteq 1001 .. 1006
  /\ EmptyFinds \in BOOLEAN

Content == Recording \cup {Empty, Damaged}

Key == Group \X Name

(* The codes of xbusiness_vpr.h:75-106 that the SDK itself produces ...    *)
XVPR_CODE_SUCCESS     == 0
XVPR_CODE_FAIL        == 1
XVPR_CODE_CONNECT_ERR == 2

(* ... and those it passes on from the service.                            *)
PERSON_EXISTS      == 2001
PERSON_NOT_EXISTS  == 2002
PERSON_NO_SPEECHES == 2004
NOT_TRAINED        == 3005
IDENTIFY_ERROR     == 3006
SPEECH_TOO_SHORT   == 4001
SPEECH_EXISTS      == 4004
SPEECH_NOT_EXISTS  == 4005

ServiceCodes ==
  {PERSON_EXISTS, PERSON_NOT_EXISTS, PERSON_NO_SPEECHES, NOT_TRAINED,
   IDENTIFY_ERROR, SPEECH_TOO_SHORT, SPEECH_EXISTS, SPEECH_NOT_EXISTS}
    \cup 1001 .. 1006

(* The URLs of xbusiness_vpr.c:26-42 that a function posts to.             *)
PostKinds == {"person/create", "person/delete", "person/find", "speech/add",
              "speech/delete", "speech/reserve", "model/train",
              "model/verify", "model/identify_2"}

FilePosts == {"speech/add", "model/verify", "model/identify_2"}

(* A request carries the fields of all posts; "file" is the uploaded       *)
(* content, or the md5 field of speech/delete.                             *)
Request == [post : PostKinds, id : Group, name : Name, file : Content]

Database == [persons  : SUBSET Key,
             speeches : [Key -> Seq(Content)],
             models   : [Key -> SUBSET Content]]

EmptyDatabase == [persons  |-> {},
                  speeches |-> [k \in Key |-> << >>],
                  models   |-> [k \in Key |-> {}]]

KeyOf(q) == <<q.id, q.name>>

Heard(s) == {s[i] : i \in 1 .. Len(s)}

TrainedIn(db, g) == {k \in db.persons : k[1] = g /\ db.models[k] # {}}

Owners(db, md5) == {k \in db.persons : md5 \in Heard(db.speeches[k])}
-----------------------------------------------------------------------------
(* The reasons the service has to refuse a request.                        *)
NeedsPerson == {"person/delete", "person/find", "speech/add",
                "speech/reserve", "model/train", "model/verify"}

IsReason(c, db, q) ==
  LET k == KeyOf(q)
  IN  \/ c = PERSON_EXISTS /\ q.post = "person/create" /\ k \in db.persons
      \/ c = PERSON_NOT_EXISTS /\ q.post \in NeedsPerson
                               /\ k \notin db.persons
      \/ c = SPEECH_TOO_SHORT /\ q.post \in FilePosts /\ q.file = Empty
      \/ c = SPEECH_EXISTS /\ q.post = "speech/add"
                           /\ q.file \in Heard(db.speeches[k])
      \/ c = SPEECH_NOT_EXISTS /\ q.post = "speech/delete"
                               /\ Owners(db, q.file) = {}
      \/ c = PERSON_NO_SPEECHES /\ q.post = "model/train"
                                /\ db.speeches[k] = << >>
      \/ c = NOT_TRAINED /\ q.post = "model/verify" /\ db.models[k] = {}
      \/ c = IDENTIFY_ERROR /\ q.post = "model/identify_2"
                            /\ TrainedIn(db, q.id) = {}

Refusals(db, q) == {c \in ServiceCodes : IsReason(c, db, q)}

(* A request that is carried out: the databases it may lead to.            *)
Latest(s, n) == IF Len(s) <= n THEN s ELSE SubSeq(s, Len(s) - n + 1, Len(s))

(* s without its first r *)
Without(s, r) ==
  LET p == CHOOSE i \in 1 .. Len(s) : s[i] = r
  IN  [i \in 1 .. Len(s) - 1 |-> IF i < p THEN s[i] ELSE s[i + 1]]

Created(db, k) == [db EXCEPT !.persons = @ \cup {k}]

Deleted(db, k) == [persons  |-> db.persons \ {k},
                   speeches |-> [db.speeches EXCEPT ![k] = << >>],
                   models   |-> [db.models EXCEPT ![k] = {}]]

WithSpeeches(db, k, s) == [db EXCEPT !.speeches = [@ EXCEPT ![k] = s]]

WithModel(db, k) ==
  [db EXCEPT !.models = [@ EXCEPT ![k] = Heard(db.speeches[k])]]

Effects(db, q) ==
  LET k == KeyOf(q)
  IN  CASE q.post = "person/create"  -> {Created(db, k)}
        [] q.post = "person/delete"  -> {Deleted(db, k)}
        [] q.post = "speech/add"     ->
             {WithSpeeches(db, k, Append(db.speeches[k], q.file))}
        [] q.post = "speech/delete"  ->
             {WithSpeeches(db, o, Without(db.speeches[o], q.file)) :
                o \in Owners(db, q.file)}
        [] q.post = "speech/reserve" ->
             {WithSpeeches(db, k, Latest(db.speeches[k], Reserve))}
        [] q.post = "model/train"    -> {WithModel(db, k)}
        [] OTHER                     -> {db}

(* What a reply tells besides "success": the MD5 of the stored speech, the *)
(* person's flag, or the candidate (its key and whether it is a match).    *)
Findings(db, q) ==
  LET k == KeyOf(q)
  IN  CASE q.post = "speech/add"  -> {[md5 |-> q.file]}
        [] q.post = "person/find" -> {[flag |-> db.models[k] # {}]}
        [] q.post = "model/verify" ->
             {[who |-> k, similar |-> q.file \in db.models[k]]}
        [] q.post = "model/identify_2" ->
             {[who |-> c, similar |-> q.file \in db.models[c]] :
                c \in TrainedIn(db, q.id)}
        [] OTHER -> {[none |-> TRUE]}

(* The service may be out of order whatever the request is.               *)
Refused(db, c) == [db |-> db, code |-> c, data |-> [none |-> TRUE]]

Done(db, d, f) == [db |-> d, code |-> XVPR_CODE_SUCCESS, data |-> f]

(* All that the service may do about a request: refuse it with a reason it *)
(* has, or with an outage; or, if there is no reason to refuse it, carry   *)
(* it out.                                                                 *)
Answers(db, q) ==
  {Refused(db, c) : c \in Refusals(db, q) \cup Outages}
  \cup
  (IF Refusals(db, q) # {} THEN {}
   ELSE {Done(db, d, f) : d \in Effects(db, q), f \in Findings(db, q)})
  \cup
  (IF EmptyFinds /\ q.post = "person/find" /\ KeyOf(q) \notin db.persons
   THEN {Done(db, db, [persons |-> 0])} ELSE {})
=============================================================================
