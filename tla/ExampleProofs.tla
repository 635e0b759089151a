---------------------------- MODULE ExampleProofs ----------------------------
(***************************************************************************)
(* Proofs about Example for any lists of settings, any file, any sizes of  *)
(* the arrays and of memory, and whatever the service holds and answers.   *)
(***************************************************************************)
EXTENDS Example, WellFoundedInduction, TLAPS

(* Where main is: before it has read the file, ready to detect, and with   *)
(* the speech in its hands.                                                *)
Preparing == {"init", "setparam", "remove_person", "create_person", "get_info",
              "read"}
HasFile   == {"create_vad", "detect"}
HasSpeech == {"add_speech", "register_person", "verify_person",
              "identify_person", "release"}

EndsWell == pc = "exit" /\ exit = 0

(* Main gives up at its end only.                                          *)
ExitInv == pc # "exit" => exit = 0

(* Each buffer at each place, and how many samples it has.                 *)
MemoryInv ==
  /\ {buffer, valid_buffer} \subseteq {"null", "live", "freed"}
  /\ pc \in Preparing => buffer = "null" /\ valid_buffer = "null"
  /\ pc \in HasFile =>
       /\ valid_buffer = "null"
       /\ buffer # "null" => buffer = "live" /\ buf_len = Samples
  /\ pc \in HasSpeech => /\ buffer = "live" /\ valid_buffer = "live"
                         /\ buf_len \in 1 .. Samples
  /\ pc = "release_valid" => buffer = "freed" /\ valid_buffer = "live"
  /\ pc = "cleanup" \/ EndsWell => buffer = "freed" /\ valid_buffer = "freed"
  /\ EndsWell => ~library

(* An array holds the last of the values that it has been set to.          *)
LastBy(n, i) ==
  \A j \in i + 1 .. n : settings[j][1] # settings[i][1]

ParamsInv ==
  /\ pc = "init" => set = 0
  /\ pc \notin {"init", "setparam", "exit"} => set = Len(settings)
  /\ \A i \in 1 .. set :
       LET key == settings[i][1]
       IN  key \in TextParams /\ LastBy(set, i) =>
             params[key] = [c \in 1 .. ParamSize[key] |-> Copied(settings[i][2], c)]

(* A call of main: under way, or returned and not looked at yet.           *)
Calling == busy[Main] \/ ret[Main] # NoCode

AllDone ==
  \A i \in 1 .. Len(verdicts[Main]) : verdicts[Main][i].code = XVPR_CODE_SUCCESS

Answered == verdicts[Main] # << >> /\ AllDone

CallInv ==
  /\ busy[Main] => ret[Main] = NoCode
  /\ Calling => /\ pc \in API
                /\ call[Main] = MainCall
                /\ Len(verdicts[Main]) <= Len(Posts(pc))
                /\ \A i \in 1 .. Len(verdicts[Main]) - 1 :
                     verdicts[Main][i].code = XVPR_CODE_SUCCESS
  /\ ret[Main] = XVPR_CODE_SUCCESS => Answered

(* What may arrive late from a program that has not given up: a deletion,  *)
(* a creation or a reservation; or a call has lost its connection and main *)
(* is about to give up.                                                    *)
Harmless == {"person/delete", "person/create", "speech/reserve"}

Lost == ret[Main] = XVPR_CODE_CONNECT_ERR /\ pc \notin Ignored

LateInv ==
  /\ \A q \in late : q.id = Id /\ q.name = Speaker
  /\ exit = 0 /\ ~Lost => \A q \in late : q.post \in Harmless

(* Speech is the speaker's latest, or the speaker's model knows it.        *)
Speaking == <<Id, Speaker>>

Remembers(d) ==
  LET s == d.speeches[Speaking] IN s # << >> /\ s[Len(s)] = Speech

Knows(d) == Speech \in d.models[Speaking]

EnrolInv ==
  exit = 0 /\ ~Lost /\ ~deletedLate =>
    /\ pc = "add_speech" /\ Calling /\ Answered => Remembers(db)
    /\ pc = "register_person" =>
         IF Calling /\ Answered THEN Knows(db) ELSE Remembers(db)
    /\ pc \in {"verify_person", "identify_person", "release", "release_valid",
               "cleanup", "exit"} => Knows(db)

(* Sequences whose elements have no type of their own.                     *)
IsSequence(s) == \E S : s \in Seq(S)

(* One more verdict behind the others.                                     *)
LEMMA AppendFacts ==
  ASSUME NEW s, IsSequence(s), NEW e
  PROVE  /\ IsSequence(Append(s, e))
         /\ Len(s) \in Nat
         /\ Len(Append(s, e)) = Len(s) + 1
         /\ Append(s, e)[Len(s) + 1] = e
         /\ \A i \in 1 .. Len(s) : Append(s, e)[i] = s[i]
         /\ Append(s, e) # << >>
<1>1. PICK S : s \in Seq(S)
  BY DEF IsSequence
<1>2. s \in Seq(S \cup {e})
  BY <1>1
<1>3. Append(s, e) \in Seq(S \cup {e})
  BY <1>2
<1> QED  BY <1>2, <1>3 DEF IsSequence

(* The variables of the contract speak of one thread.                      *)
Shapes ==
  /\ busy \in [Thread -> BOOLEAN]
  /\ call = [t \in Thread |-> call[t]]
  /\ verdicts = [t \in Thread |-> verdicts[t]] /\ IsSequence(verdicts[Main])
  /\ ret = [t \in Thread |-> ret[t]]

IInv == /\ TypeOK /\ Shapes /\ ExitInv /\ MemoryInv /\ ParamsInv
        /\ CallInv /\ LateInv /\ EnrolInv
-----------------------------------------------------------------------------
(* Databases stay databases, whatever the service does with a request.     *)
LEMMA LatestIsPart ==
  ASSUME NEW S, NEW s \in Seq(S), NEW n \in Nat
  PROVE  Latest(s, n) \in Seq(S)
BY DEF Latest

LEMMA WithoutIsPart ==
  ASSUME NEW S, NEW s \in Seq(S), NEW r, s # << >>
  PROVE  Without(s, r) \in Seq(S)
<1> DEFINE p == CHOOSE i \in 1 .. Len(s) : s[i] = r
           u == [i \in 1 .. Len(s) - 1 |-> IF i < p THEN s[i] ELSE s[i + 1]]
<1>1. Len(s) - 1 \in Nat
  OBVIOUS
<1>2. \A i \in 1 .. Len(s) - 1 : s[i] \in S /\ s[i + 1] \in S
  OBVIOUS
<1> HIDE DEF p
<1>3. u \in Seq(S)
  BY <1>1, <1>2
<1> QED  BY <1>3 DEF Without, p

LEMMA WithSpeechesIsDatabase ==
  ASSUME NEW d \in Database, NEW k \in Key, NEW s \in Seq(Content)
  PROVE  /\ WithSpeeches(d, k, s) \in Database
         /\ WithSpeeches(d, k, s).speeches[k] = s
         /\ \A l \in Key \ {k} :
              WithSpeeches(d, k, s).speeches[l] = d.speeches[l]
<1> DEFINE f == [d.speeches EXCEPT ![k] = s]
<1>1. f \in [Key -> Seq(Content)]
  BY DEF Database
<1>2. f[k] = s /\ \A l \in Key \ {k} : f[l] = d.speeches[l]
  BY DEF Database
<1>3. WithSpeeches(d, k, s) = [d EXCEPT !.speeches = f]
  BY DEF WithSpeeches
<1> HIDE DEF f
<1> QED  BY <1>1, <1>2, <1>3 DEF Database

LEMMA EffectsAreDatabases ==
  ASSUME NEW d \in Database, NEW q \in Request, NEW e \in Effects(d, q)
  PROVE  e \in Database
<1> DEFINE k == KeyOf(q)
<1>1. /\ k \in Key /\ q.file \in Content /\ q.post \in PostKinds
      /\ d.speeches \in [Key -> Seq(Content)]
      /\ d.models \in [Key -> SUBSET Content]
      /\ d.persons \in SUBSET Key
  BY DEF KeyOf, Key, Request, Database
<1>2. CASE q.post = "person/create"
  BY <1>1, <1>2 DEF Effects, Created, Database
<1>3. CASE q.post = "person/delete"
  <2>1. PICK none : none = << >>
    OBVIOUS
  <2>2. e = [persons  |-> d.persons \ {k},
             speeches |-> [d.speeches EXCEPT ![k] = none],
             models   |-> [d.models EXCEPT ![k] = {}]]
    BY <1>3, <2>1 DEF Effects, Deleted
  <2>3. none \in Seq(Content)
    BY <2>1
  <2> QED  BY <1>1, <2>2, <2>3 DEF Database
<1>4. CASE q.post = "speech/add"
  <2> DEFINE s == Append(d.speeches[k], q.file)
  <2>1. e = WithSpeeches(d, k, s) /\ s \in Seq(Content)
    BY <1>1, <1>4 DEF Effects
  <2> HIDE DEF s
  <2> QED  BY <1>1, <2>1, WithSpeechesIsDatabase
<1>5. CASE q.post = "speech/delete"
  <2>1. PICK o \in Owners(d, q.file) :
               e = WithSpeeches(d, o, Without(d.speeches[o], q.file))
    BY <1>5 DEF Effects
  <2>2. o \in Key /\ d.speeches[o] # << >>
    BY <1>1, <2>1 DEF Owners, Heard
  <2>3. Without(d.speeches[o], q.file) \in Seq(Content)
    BY <1>1, <2>2, WithoutIsPart
  <2> QED  BY <2>1, <2>2, <2>3, WithSpeechesIsDatabase
<1>6. CASE q.post = "speech/reserve"
  <2>1. e = WithSpeeches(d, k, Latest(d.speeches[k], Reserve))
    BY <1>6 DEF Effects
  <2>2. Latest(d.speeches[k], Reserve) \in Seq(Content)
    BY <1>1, ServerAssumption, LatestIsPart
  <2> QED  BY <1>1, <2>1, <2>2, WithSpeechesIsDatabase
<1>7. CASE q.post = "model/train"
  <2>1. e = WithModel(d, k) /\ Heard(d.speeches[k]) \in SUBSET Content
    BY <1>1, <1>7 DEF Effects, Heard
  <2> QED  BY <1>1, <2>1 DEF WithModel, Database
<1>8. CASE q.post \in {"person/find", "model/verify", "model/identify_2"}
  BY <1>8 DEF Effects
<1> QED  BY <1>1, <1>2, <1>3, <1>4, <1>5, <1>6, <1>7, <1>8 DEF PostKinds

LEMMA AnswersAreDatabases ==
  ASSUME NEW d \in Database, NEW q \in Request, NEW a \in Answers(d, q)
  PROVE  a.db \in Database
<1>1. CASE \E c \in Refusals(d, q) \cup Outages : a = Refused(d, c)
  BY <1>1 DEF Refused
<1>2. CASE \E e \in Effects(d, q), f \in Findings(d, q) : a = Done(d, e, f)
  BY <1>2, EffectsAreDatabases DEF Done
<1>3. CASE a = Done(d, d, [persons |-> 0])
  BY <1>3 DEF Done
<1> QED  BY <1>1, <1>2, <1>3 DEF Answers

(* The statements of main, one after the other.                            *)
LEMMA ScriptIs ==
  /\ {Script[i] : i \in DOMAIN Script} =
       {"init", "setparam", "remove_person", "create_person", "get_info",
        "read", "create_vad", "detect", "add_speech", "register_person",
        "verify_person", "identify_person", "release", "release_valid",
        "cleanup", "exit"}
  /\ \A i \in 1 .. 15 : Behind(Script[i]) = Script[i + 1]
<1>1. DOMAIN Script = 1 .. 16
  BY DEF Script
<1>2. \A i, j \in 1 .. 16 : Script[i] = Script[j] => i = j
  BY DEF Script
<1>3. \A i \in 1 .. 15 : Behind(Script[i]) = Script[i + 1]
  <2> SUFFICES ASSUME NEW i \in 1 .. 15
               PROVE  Behind(Script[i]) = Script[i + 1]
    OBVIOUS
  <2> DEFINE j == CHOOSE n \in DOMAIN Script : Script[n] = Script[i]
  <2>1. i \in 1 .. 16
    OBVIOUS
  <2>2. j \in DOMAIN Script /\ Script[j] = Script[i]
    <3>1. \E n \in DOMAIN Script : Script[n] = Script[i]
      BY <1>1, <2>1, Zenon
    <3> QED  BY <3>1, Zenon
  <2>3. j = i
    BY <1>1, <1>2, <2>1, <2>2, Zenon
  <2> QED  BY <2>3, Zenon DEF Behind
<1>4. {Script[i] : i \in 1 .. 16} =
       {"init", "setparam", "remove_person", "create_person", "get_info",
        "read", "create_vad", "detect", "add_speech", "register_person",
        "verify_person", "identify_person", "release", "release_valid",
        "cleanup", "exit"}
  BY DEF Script
<1> QED  BY <1>1, <1>3, <1>4, Zenon

(* The same by name.                                                       *)
LEMMA ScriptOrder ==
  /\ Behind("init") = "setparam"
  /\ Behind("setparam") = "remove_person"
  /\ Behind("remove_person") = "create_person"
  /\ Behind("create_person") = "get_info"
  /\ Behind("get_info") = "read"
  /\ Behind("read") = "create_vad"
  /\ Behind("create_vad") = "detect"
  /\ Behind("detect") = "add_speech"
  /\ Behind("add_speech") = "register_person"
  /\ Behind("register_person") = "verify_person"
  /\ Behind("verify_person") = "identify_person"
  /\ Behind("identify_person") = "release"
  /\ Behind("release") = "release_valid"
  /\ Behind("release_valid") = "cleanup"
  /\ Behind("cleanup") = "exit"
<1>1. /\ 1 \in 1 .. 15 /\ 2 \in 1 .. 15 /\ 3 \in 1 .. 15 /\ 4 \in 1 .. 15
      /\ 5 \in 1 .. 15 /\ 6 \in 1 .. 15 /\ 7 \in 1 .. 15 /\ 8 \in 1 .. 15
      /\ 9 \in 1 .. 15 /\ 10 \in 1 .. 15 /\ 11 \in 1 .. 15 /\ 12 \in 1 .. 15
      /\ 13 \in 1 .. 15 /\ 14 \in 1 .. 15 /\ 15 \in 1 .. 15
  OBVIOUS
<1> DEFINE B(s) == Behind(s)
<1>2. \A i \in 1 .. 15 : B(Script[i]) = Script[i + 1]
  BY ScriptIs
<1> HIDE DEF B
<1>3. /\ B("init") = "setparam" /\ B("setparam") = "remove_person"
      /\ B("remove_person") = "create_person" /\ B("create_person") = "get_info"
      /\ B("get_info") = "read" /\ B("read") = "create_vad"
      /\ B("create_vad") = "detect" /\ B("detect") = "add_speech"
  BY <1>1, <1>2 DEF Script
<1>4. /\ B("add_speech") = "register_person"
      /\ B("register_person") = "verify_person"
      /\ B("verify_person") = "identify_person"
      /\ B("identify_person") = "release" /\ B("release") = "release_valid"
      /\ B("release_valid") = "cleanup" /\ B("cleanup") = "exit"
  BY <1>1, <1>2 DEF Script
<1> QED  BY <1>3, <1>4, Zenon DEF B

(* The service of the contract is the service of the calls: it answers a    *)
(* request alike.                                                           *)
LEMMA SameAnswers ==
  ASSUME NEW d, NEW q
  PROVE  Api!Answers(d, q) = Answers(d, q)
<1>1. Api!KeyOf(q) = KeyOf(q)
  BY DEF Api!KeyOf, KeyOf
<1>2. Api!ServiceCodes = ServiceCodes
  BY DEF Api!ServiceCodes, ServiceCodes,
     Api!PERSON_EXISTS, Api!PERSON_NOT_EXISTS,
     Api!PERSON_NO_SPEECHES, Api!NOT_TRAINED,
     Api!IDENTIFY_ERROR, Api!SPEECH_TOO_SHORT,
     Api!SPEECH_EXISTS, Api!SPEECH_NOT_EXISTS,
     PERSON_EXISTS, PERSON_NOT_EXISTS, PERSON_NO_SPEECHES, NOT_TRAINED,
     IDENTIFY_ERROR, SPEECH_TOO_SHORT, SPEECH_EXISTS, SPEECH_NOT_EXISTS
<1>3. \A s : Api!Heard(s) = Heard(s)
  BY DEF Api!Heard, Heard
<1>4. \A g : Api!TrainedIn(d, g) = TrainedIn(d, g)
  BY DEF Api!TrainedIn, TrainedIn
<1>5. \A m : Api!Owners(d, m) = Owners(d, m)
  BY <1>3 DEF Api!Owners, Owners
<1>6. \A c : Api!IsReason(c, d, q) = IsReason(c, d, q)
  BY <1>1, <1>3, <1>4, <1>5 DEF Api!IsReason, IsReason,
     Api!PERSON_EXISTS, Api!PERSON_NOT_EXISTS,
     Api!PERSON_NO_SPEECHES, Api!NOT_TRAINED,
     Api!IDENTIFY_ERROR, Api!SPEECH_TOO_SHORT,
     Api!SPEECH_EXISTS, Api!SPEECH_NOT_EXISTS,
     PERSON_EXISTS, PERSON_NOT_EXISTS, PERSON_NO_SPEECHES, NOT_TRAINED,
     IDENTIFY_ERROR, SPEECH_TOO_SHORT, SPEECH_EXISTS, SPEECH_NOT_EXISTS,
     Api!NeedsPerson, NeedsPerson, Api!FilePosts, FilePosts
<1>7. Api!Refusals(d, q) = Refusals(d, q)
  BY <1>2, <1>6 DEF Api!Refusals, Refusals
<1>8. Api!Effects(d, q) = Effects(d, q)
  <2>1. \A s, n : Api!Latest(s, n) = Latest(s, n)
    BY DEF Api!Latest, Latest
  <2>2. \A s, r : Api!Without(s, r) = Without(s, r)
    BY DEF Api!Without, Without
  <2>3. \A k, s : Api!WithSpeeches(d, k, s) = WithSpeeches(d, k, s)
    BY DEF Api!WithSpeeches, WithSpeeches
  <2>4. \A k : /\ Api!Created(d, k) = Created(d, k)
               /\ Api!Deleted(d, k) = Deleted(d, k)
               /\ Api!WithModel(d, k) = WithModel(d, k)
    BY <1>3 DEF Api!Created, Created, Api!Deleted, Deleted,
       Api!WithModel, WithModel
  <2> QED
    BY <1>1, <1>5, <2>1, <2>2, <2>3, <2>4 DEF Api!Effects, Effects
<1>9. Api!Findings(d, q) = Findings(d, q)
  BY <1>1, <1>4 DEF Api!Findings, Findings
<1>10. \A e, c, f : /\ Api!Refused(e, c) = Refused(e, c)
                    /\ Api!Done(e, c, f) = Done(e, c, f)
  BY DEF Api!Refused, Refused, Api!Done, Done,
     Api!XVPR_CODE_SUCCESS, XVPR_CODE_SUCCESS
<1> QED
  BY <1>1, <1>7, <1>8, <1>9, <1>10 DEF Api!Answers, Answers
(* The contract speaks of the same calls and the same service.             *)
LEMMA SameApi ==
  /\ \A op : Api!Posts(op) = Posts(op)
  /\ \A c, i, f : Api!RequestOf(c, i, f) = RequestOf(c, i, f)
  /\ Api!NoCode = NoCode
  /\ Api!XVPR_CODE_SUCCESS = 0
  /\ Api!XVPR_CODE_FAIL = 1
  /\ Api!XVPR_CODE_CONNECT_ERR = 2
<1>1. \A op : Api!Posts(op) = Posts(op)
  BY DEF Api!Posts, Posts
<1>2. \A c, i, f : Api!RequestOf(c, i, f) = RequestOf(c, i, f)
  BY <1>1 DEF Api!RequestOf, RequestOf
<1> QED
  BY <1>1, <1>2 DEF Api!NoCode, NoCode, Api!XVPR_CODE_SUCCESS,
     Api!XVPR_CODE_FAIL, Api!XVPR_CODE_CONNECT_ERR
-----------------------------------------------------------------------------
(* What a number is modulo a larger one, and what a small negative one is. *)
LEMMA Wraps ==
  ASSUME NEW m \in Nat \ {0}, NEW n \in Int
  PROVE  /\ n \in 0 .. m - 1 => n % m = n
         /\ n \in -m .. -1 => n % m = n + m
<1>1. n % m \in 0 .. m - 1 /\ n = m * (n \div m) + (n % m) /\ n \div m \in Int
  OBVIOUS
<1> DEFINE r == n % m
           q == n \div m
<1>2. r \in 0 .. m - 1 /\ n = m * q + r /\ q \in Int
  BY <1>1
<1> HIDE DEF r, q
<1>3. CASE n \in 0 .. m - 1
  <2>1. m * q > -m /\ m * q < m
    BY <1>2, <1>3
  <2>2. q = 0
    BY <1>2, <2>1
  <2> QED  BY <1>2, <1>3, <2>2 DEF r
<1>4. CASE n \in -m .. -1
  <2>1. q = -1
    BY <1>2, <1>4
  <2> QED  BY <1>2, <1>4, <2>1 DEF r
<1> QED  BY <1>3, <1>4

(* The length is that of the samples, or so large that there is no memory  *)
(* for it.                                                                 *)
LEMMA LengthIs ==
  ASSUME file \in FileSizes
  PROVE  /\ LengthOf \in 0 .. SizeMax
         /\ file >= Skip => LengthOf = Samples
         /\ file < Skip => Samples = 0
         /\ file < Skip /\ file # -1 => Malloc(LengthOf) = {"null"}
<1> DEFINE M == SizeMax + 1
           k == file - Skip
           r == k % M
           h == r \div 2
<1>1. /\ file \in Int /\ file >= -1 /\ file <= MemoryMax
      /\ Skip \in Nat /\ SizeMax \in Nat /\ MemoryMax \in Nat
      /\ 2 * MemoryMax < SizeMax - Skip
  BY ExampleAssumption
<1>2. M \in Nat \ {0} /\ k \in Int /\ M = SizeMax + 1 /\ k = file - Skip
  BY <1>1
<1>3. /\ k \in 0 .. M - 1 => r = k
      /\ k \in -M .. -1 => r = k + M
  BY <1>2, Wraps
<1>4. LengthOf = IF file = -1 THEN SizeMax ELSE h
  BY DEF LengthOf
<1>5. r \in 0 .. SizeMax
  <2>1. r \in 0 .. M - 1
    <3> HIDE DEF k, M
    <3> QED  BY <1>2
  <2> HIDE DEF r, k, M
  <2> QED  BY <1>1, <1>2, <2>1
<1>6. h \in 0 .. SizeMax /\ 2 * h <= r /\ r <= 2 * h + 1
  <2> HIDE DEF r, k, M
  <2> QED  BY <1>1, <1>5
<1>7. CASE file >= Skip
  <2>1. r = k
    <3> HIDE DEF r, k, M
    <3> QED  BY <1>1, <1>2, <1>3, <1>7
  <2>2. file # -1 /\ Samples = k \div 2
    BY <1>1, <1>7 DEF Samples
  <2> QED  BY <1>1, <1>4, <1>6, <1>7, <2>1, <2>2
<1>8. CASE file < Skip
  <2>1. Samples = 0
    BY <1>8 DEF Samples
  <2>2. ASSUME file # -1
        PROVE  Malloc(h) = {"null"}
    <3>1. r = k + M
      <4> HIDE DEF r, k, M
      <4> QED  BY <1>1, <1>2, <1>3, <1>8, <2>2
    <3>2. 2 * h \in 0 .. M - 1 /\ 2 * h > MemoryMax
      <4> HIDE DEF h, r, k, M
      <4> QED  BY <1>1, <1>2, <1>5, <1>6, <2>2, <3>1
    <3>3. 2 * h % M = 2 * h
      <4> HIDE DEF h, M
      <4> QED  BY <1>2, <1>6, <3>2, Wraps
    <3> HIDE DEF h
    <3> QED  BY <3>2, <3>3 DEF Malloc
  <2> HIDE DEF h
  <2> QED  BY <1>1, <1>4, <1>6, <1>8, <2>1, <2>2
<1> QED  BY <1>1, <1>7, <1>8

(* malloc gives memory or NULL.                                            *)
LEMMA MallocIs ==
  ASSUME NEW n
  PROVE  Malloc(n) \subseteq {"null", "live"} /\ "null" \in Malloc(n)
BY DEF Malloc
-----------------------------------------------------------------------------
(* The posts of main's calls.                                              *)
LEMMA MainPosts ==
  ASSUME NEW op \in API
  PROVE  /\ Len(Posts(op)) \in {1, 2}
         /\ \A i \in 1 .. Len(Posts(op)) : Posts(op)[i] \in PostKinds
         /\ op \in Ignored =>
              \A i \in 1 .. Len(Posts(op)) : Posts(op)[i] \in Harmless
         /\ op = "add_speech" => Posts(op) = <<"speech/add">>
         /\ op = "register_person" => Posts(op) = <<"model/train">>
         /\ op = "verify_person" => Posts(op) = <<"model/verify">>
         /\ op = "identify_person" => Posts(op) = <<"model/identify_2">>
<1> USE DEF Posts, PostKinds, Ignored, Harmless
<1>1. CASE op = "create_person"    BY <1>1
<1>2. CASE op = "remove_person"    BY <1>2
<1>3. CASE op = "get_info"         BY <1>3
<1>4. CASE op = "add_speech"       BY <1>4
<1>5. CASE op = "remove_speech"    BY <1>5
<1>6. CASE op = "reserve_speeches" BY <1>6
<1>7. CASE op = "register_person"  BY <1>7
<1>8. CASE op = "update_person"    BY <1>8
<1>9. CASE op = "verify_person"    BY <1>9
<1>10. CASE op = "identify_person" BY <1>10
<1> QED
  BY <1>1, <1>2, <1>3, <1>4, <1>5, <1>6, <1>7, <1>8, <1>9, <1>10 DEF API

(* An answer that is not success leaves the database alone; success is an  *)
(* effect that the service had no reason to refuse, or an empty find.      *)
LEMMA AnswerIs ==
  ASSUME NEW d \in Database, NEW q \in Request, NEW a \in Answers(d, q)
  PROVE  /\ a.code # XVPR_CODE_SUCCESS => a.db = d
         /\ a.code = XVPR_CODE_SUCCESS =>
              \/ a.db = d /\ q.post = "person/find"
              \/ a.db \in Effects(d, q) /\ Refusals(d, q) = {}
<1>1. CASE \E c \in Refusals(d, q) \cup Outages : a = Refused(d, c)
  <2>1. PICK c \in Refusals(d, q) \cup Outages : a = Refused(d, c)
    BY <1>1
  <2>2. c # XVPR_CODE_SUCCESS
    <3>1. Refusals(d, q) \subseteq ServiceCodes
      BY Zenon DEF Refusals
    <3>2. Outages \subseteq ServiceCodes
      BY ServerAssumption DEF ServiceCodes
    <3>3. XVPR_CODE_SUCCESS \notin ServiceCodes
      BY DEF ServiceCodes, XVPR_CODE_SUCCESS, PERSON_EXISTS,
         PERSON_NOT_EXISTS, PERSON_NO_SPEECHES, NOT_TRAINED, IDENTIFY_ERROR,
         SPEECH_TOO_SHORT, SPEECH_EXISTS, SPEECH_NOT_EXISTS
    <3> QED  BY <3>1, <3>2, <3>3
  <2> QED  BY <2>1, <2>2 DEF Refused
<1>2. CASE /\ Refusals(d, q) = {}
           /\ \E e \in Effects(d, q), f \in Findings(d, q) : a = Done(d, e, f)
           
  <2>1. PICK e \in Effects(d, q), f \in Findings(d, q) : a = Done(d, e, f)
    BY <1>2
  <2> QED  BY <1>2, <2>1 DEF Done
<1>3. CASE a = Done(d, d, [persons |-> 0]) /\ q.post = "person/find"
  BY <1>3 DEF Done
<1> QED  BY <1>1, <1>2, <1>3 DEF Answers
(* A reservation keeps the latest speech.                                  *)
LEMMA LatestKeepsLast ==
  ASSUME NEW S, NEW s \in Seq(S), s # << >>, NEW n \in Nat \ {0}
  PROVE  /\ Latest(s, n) # << >>
         /\ Latest(s, n)[Len(Latest(s, n))] = s[Len(s)]
<1>1. CASE Len(s) <= n
  BY <1>1 DEF Latest
<1>2. CASE ~(Len(s) <= n)
  <2> DEFINE m == Len(s) - n
             u == SubSeq(s, m + 1, Len(s))
  <2>1. m \in Nat /\ Len(s) \in Nat /\ m + 1 \in 1 .. Len(s) + 1
    BY <1>2
  <2>2. Latest(s, n) = u
    BY <1>2 DEF Latest
  <2>3. u \in Seq(S) /\ Len(u) = n
    BY <2>1
  <2>4. \A i \in 1 .. n : u[i] = s[m + i]
    BY <2>1
  <2>5. m + n = Len(s) /\ n \in 1 .. n
    BY <2>1
  <2> HIDE DEF u, m
  <2> QED  BY <2>2, <2>3, <2>4, <2>5
<1> QED  BY <1>1, <1>2

(* The speaker is somebody the service may know.                           *)
LEMMA SpeakingIsKey ==
  /\ Speaking \in Key /\ Speech \in Content
  /\ \A q : q.id = Id /\ q.name = Speaker => KeyOf(q) = Speaking
BY ExampleAssumption DEF Speaking, Key, Content, KeyOf

(* Of main's requests that may arrive late, all but a deletion of the      *)
(* speaker leave what the service has learnt of the speaker.               *)
LEMMA HarmlessArrives ==
  ASSUME NEW d \in Database, NEW q \in Request, NEW a \in Answers(d, q),
         q.id = Id, q.name = Speaker, q.post \in Harmless
  PROVE  \/ KeyOf(q) \in d.persons \ a.db.persons
         \/ /\ Remembers(d) => Remembers(a.db)
            /\ Knows(d) => Knows(a.db)
<1>1. /\ KeyOf(q) = Speaking /\ Speaking \in Key
      /\ d.speeches \in [Key -> Seq(Content)]
      /\ d.models \in [Key -> SUBSET Content]
  BY SpeakingIsKey DEF Database
<1>2. CASE a.db = d
  BY <1>2
<1>3. CASE a.db \in Effects(d, q) /\ Refusals(d, q) = {}
  <2>1. CASE q.post = "person/delete"
    <3>1. PERSON_NOT_EXISTS \notin Refusals(d, q)
      BY <1>3
    <3>2. PERSON_NOT_EXISTS \in ServiceCodes
      BY DEF ServiceCodes
    <3>3. ~IsReason(PERSON_NOT_EXISTS, d, q)
      BY <3>1, <3>2, Zenon DEF Refusals
    <3>4. q.post \in NeedsPerson
      BY <2>1 DEF NeedsPerson
    <3>5. Speaking \in d.persons
      BY <1>1, <3>3, <3>4 DEF IsReason
    <3>6. a.db = Deleted(d, Speaking)
      BY <1>1, <1>3, <2>1 DEF Effects
    <3>7. Speaking \notin a.db.persons
      BY <3>6 DEF Deleted
    <3> QED  BY <1>1, <3>5, <3>7
  <2>2. CASE q.post = "person/create"
    <3>1. a.db = Created(d, Speaking)
      BY <1>1, <1>3, <2>2 DEF Effects
    <3>2. a.db.speeches = d.speeches /\ a.db.models = d.models
      BY <3>1 DEF Created, Database
    <3> QED  BY <3>2 DEF Remembers, Knows
  <2>3. CASE q.post = "speech/reserve"
    <3> DEFINE s == d.speeches[Speaking]
               l == Latest(s, Reserve)
    <3>1. a.db = WithSpeeches(d, Speaking, l)
      BY <1>1, <1>3, <2>3 DEF Effects
    <3>2. s \in Seq(Content) /\ Reserve \in Nat \ {0}
      BY <1>1, ServerAssumption
    <3>3. l \in Seq(Content)
      BY <3>2, LatestIsPart
    <3>4. s # << >> => l # << >> /\ l[Len(l)] = s[Len(s)]
      BY <3>2, LatestKeepsLast
    <3>5. a.db.speeches[Speaking] = l
      <4> HIDE DEF l
      <4> QED  BY <1>1, <3>1, <3>3, WithSpeechesIsDatabase
    <3>6. a.db.models = d.models
      <4> HIDE DEF l
      <4> QED  BY <3>1 DEF WithSpeeches, Database
    <3> HIDE DEF l
    <3>7. Remembers(d) => Remembers(a.db)
      BY <3>4, <3>5, Zenon DEF Remembers
    <3> QED  BY <3>6, <3>7 DEF Knows
  <2> QED  BY <2>1, <2>2, <2>3 DEF Harmless
<1> QED  BY <1>2, <1>3, AnswerIs

(* An upload that is carried out is the speaker's latest speech.           *)
LEMMA AddedIsRemembered ==
  ASSUME NEW d \in Database, NEW q \in Request, NEW a \in Answers(d, q),
         q.id = Id, q.name = Speaker, q.file = Speech,
         q.post = "speech/add", a.code = XVPR_CODE_SUCCESS
  PROVE  Remembers(a.db)
<1>1. /\ KeyOf(q) = Speaking /\ Speaking \in Key /\ Speech \in Content
      /\ d.speeches[Speaking] \in Seq(Content)
  BY SpeakingIsKey DEF Database
<1> DEFINE s == Append(d.speeches[Speaking], Speech)
<1>2. a.db \in Effects(d, q)
  BY AnswerIs
<1>3. a.db = WithSpeeches(d, Speaking, s)
  BY <1>1, <1>2 DEF Effects
<1>4. s \in Seq(Content) /\ s # << >> /\ s[Len(s)] = Speech
  BY <1>1
<1> HIDE DEF s
<1>5. a.db.speeches[Speaking] = s
  BY <1>1, <1>3, <1>4, WithSpeechesIsDatabase
<1> QED  BY <1>4, <1>5 DEF Remembers

(* A training that is carried out teaches the speaker's latest speech.     *)
LEMMA TrainedIsKnown ==
  ASSUME NEW d \in Database, NEW q \in Request, NEW a \in Answers(d, q),
         q.id = Id, q.name = Speaker, q.post = "model/train",
         a.code = XVPR_CODE_SUCCESS, Remembers(d)
  PROVE  Knows(a.db)
<1> DEFINE s == d.speeches[Speaking]
<1>1. /\ KeyOf(q) = Speaking /\ Speaking \in Key
      /\ s \in Seq(Content) /\ d.models \in [Key -> SUBSET Content]
  BY SpeakingIsKey DEF Database
<1>2. a.db \in Effects(d, q)
  BY AnswerIs
<1>3. a.db = WithModel(d, Speaking)
  BY <1>1, <1>2 DEF Effects
<1>4. Speech \in Heard(s)
  BY <1>1 DEF Remembers, Heard
<1>5. a.db.models[Speaking] = Heard(s)
  <2> DEFINE g == [d.models EXCEPT ![Speaking] = Heard(s)]
  <2>1. g[Speaking] = Heard(s)
    BY <1>1
  <2>2. a.db = [d EXCEPT !.models = g]
    BY <1>3 DEF WithModel
  <2> HIDE DEF g
  <2>3. a.db.models = g
    BY <2>2 DEF Database
  <2> QED  BY <2>1, <2>3
<1> QED  BY <1>4, <1>5 DEF Knows

(* A recognition changes nothing.                                          *)
LEMMA RecognitionReads ==
  ASSUME NEW d \in Database, NEW q \in Request, NEW a \in Answers(d, q),
         q.post \in {"model/verify", "model/identify_2"}
  PROVE  a.db = d
<1>1. Effects(d, q) = {d}
  BY DEF Effects
<1> QED  BY <1>1, AnswerIs
-----------------------------------------------------------------------------
Rest == <<pc, exit, settings, set, params, file, memory, library, deletedLate>>

(* What the call in progress asks for next.                                *)
NextRequest == RequestOf(call[Main], Api!Asked(Main) + 1, call[Main].speech)

LEMMA NextRequestOfApi == Api!NextRequest(Main) = NextRequest
BY SameApi DEF Api!NextRequest, NextRequest

(* A call begins.                                                          *)
LEMMA BeginsIs ==
  ASSUME Shapes, CallBegins
  PROVE  /\ pc \in API /\ ret[Main] = NoCode
         /\ ~busy[Main] /\ busy'[Main] = TRUE
         /\ call'[Main] = MainCall
         /\ verdicts'[Main] = << >> /\ ret'[Main] = NoCode
         /\ UNCHANGED <<Rest, db, late>>
         /\ Shapes'
<1>1. Main \in Thread
  BY ExampleAssumption
<1>2. /\ ~busy[Main]
      /\ busy' = [busy EXCEPT ![Main] = TRUE]
      /\ verdicts' = [verdicts EXCEPT ![Main] = << >>]
      /\ ret' = [ret EXCEPT ![Main] = NoCode]
      /\ call' = [t \in Thread |-> call'[t]]
      /\ call'[Main] = MainCall /\ db' = db
  BY SameApi DEF CallBegins, Api!Begin, Shapes
<1>6. late' = late
  BY DEF CallBegins, Api!Begin
<1>3. IsSequence(<< >>)
  <2>1. << >> \in Seq({})
    OBVIOUS
  <2> QED  BY <2>1 DEF IsSequence
<1>4. busy'[Main] = TRUE /\ verdicts'[Main] = << >> /\ ret'[Main] = NoCode
  BY <1>1, <1>2 DEF Shapes
<1>5. Shapes'
  BY <1>1, <1>2, <1>3, <1>4 DEF Shapes
<1> QED  BY <1>2, <1>4, <1>5, <1>6 DEF CallBegins, Rest

(* A call gets an answer to its next request.                              *)
LEMMA AsksIs ==
  ASSUME Shapes, CallAsks
  PROVE  /\ busy[Main] /\ AllDone
         /\ Len(verdicts[Main]) < Len(Posts(call[Main].op))
         /\ \E a \in Answers(db, NextRequest) :
              /\ db' = a.db
              /\ verdicts'[Main] =
                   Append(verdicts[Main], [code |-> a.code, data |-> a.data])
         /\ UNCHANGED <<Rest, busy, call, ret, late>>
         /\ Shapes'
<1>1. Main \in Thread
  BY ExampleAssumption
<1>2. /\ busy[Main] /\ AllDone
      /\ Len(verdicts[Main]) < Len(Posts(call[Main].op))
      /\ UNCHANGED <<busy, call, ret, late>>
  BY SameApi DEF CallAsks, Api!Ask, Api!AllCarriedOut, Api!MoreToAsk,
     Api!Asked, AllDone, XVPR_CODE_SUCCESS
<1>3. PICK a \in Answers(db, NextRequest) :
             /\ db' = a.db
             /\ verdicts' = [verdicts EXCEPT ![Main] =
                   Append(@, [code |-> a.code, data |-> a.data])]
  <2>2. \E a \in Api!Answers(db, NextRequest) :
             /\ db' = a.db
             /\ verdicts' = [verdicts EXCEPT ![Main] =
                   Append(@, [code |-> a.code, data |-> a.data])]
    BY NextRequestOfApi DEF CallAsks, Api!Ask
  <2> QED  BY <2>2, SameAnswers
<1> DEFINE v == Append(verdicts[Main], [code |-> a.code, data |-> a.data])
<1>4. IsSequence(v)
  BY AppendFacts DEF Shapes
<1>5. verdicts' = [verdicts EXCEPT ![Main] = v]
  BY <1>3
<1> HIDE DEF v
<1>6. verdicts'[Main] = v
  BY <1>1, <1>5 DEF Shapes
<1>7. Shapes'
  BY <1>2, <1>4, <1>5, <1>6 DEF Shapes
<1> QED  BY <1>2, <1>3, <1>6, <1>7 DEF v, CallAsks, Rest

(* A call returns; a lost connection may leave its next request behind.    *)
LEMMA ReturnsIs ==
  ASSUME Shapes, CallReturns
  PROVE  /\ busy[Main] /\ busy'[Main] = FALSE
         /\ \/ /\ ret'[Main] = XVPR_CODE_SUCCESS
               /\ AllDone /\ ~(Len(verdicts[Main]) < Len(Posts(call[Main].op)))
               /\ late' = late
            \/ /\ ret'[Main] = verdicts[Main][Len(verdicts[Main])].code
               /\ ~AllDone /\ late' = late
            \/ ret'[Main] = XVPR_CODE_FAIL /\ late' = late
            \/ ret'[Main] = XVPR_CODE_CONNECT_ERR /\ late' = late
            \/ /\ ret'[Main] = XVPR_CODE_CONNECT_ERR
               /\ Len(verdicts[Main]) < Len(Posts(call[Main].op))
               /\ late' = late \cup {NextRequest}
         /\ UNCHANGED <<Rest, call, verdicts, db>>
         /\ Shapes'
<1>1. Main \in Thread
  BY ExampleAssumption
<1> DEFINE Ends(code) == /\ busy' = [busy EXCEPT ![Main] = FALSE]
                         /\ ret' = [ret EXCEPT ![Main] = code]
                         /\ UNCHANGED <<call, verdicts, db>>
<1>2. \A code : Ends(code) =>
        /\ busy'[Main] = FALSE /\ ret'[Main] = code
        /\ UNCHANGED <<call, verdicts, db>> /\ Shapes'
  BY <1>1 DEF Shapes
<1>3. \A code : Api!End(Main, code) = Ends(code)
  BY DEF Api!End
<1> HIDE DEF Ends
<1>4. /\ Api!AllCarriedOut(Main) = AllDone
      /\ Api!MoreToAsk(Main) = (Len(verdicts[Main]) < Len(Posts(call[Main].op)))
  BY SameApi DEF Api!AllCarriedOut, Api!MoreToAsk, Api!Asked, AllDone,
     XVPR_CODE_SUCCESS
<1>5. UNCHANGED Rest
  BY DEF CallReturns, Rest
<1>6. CASE Api!Succeed(Main)
  BY <1>2, <1>3, <1>4, <1>5, <1>6, SameApi DEF Api!Succeed, XVPR_CODE_SUCCESS
<1>7. CASE Api!PassOnRefusal(Main)
  BY <1>2, <1>3, <1>4, <1>5, <1>7 DEF Api!PassOnRefusal, Api!Asked
<1>8. CASE Api!Fail(Main)
  BY <1>2, <1>3, <1>5, <1>8, SameApi DEF Api!Fail, XVPR_CODE_FAIL
<1>9. CASE Api!ConnectError(Main)
  BY <1>2, <1>3, <1>4, <1>5, <1>9, SameApi, NextRequestOfApi
     DEF Api!ConnectError, XVPR_CODE_CONNECT_ERR
<1> QED  BY <1>6, <1>7, <1>8, <1>9, Zenon DEF CallReturns

(* A late request arrives.                                                 *)
LEMMA LateArrivesIs ==
  ASSUME LateArrives
  PROVE  /\ \E q \in late : /\ late' = late \ {q}
                            /\ \E a \in Answers(db, q) : db' = a.db
         /\ deletedLate' = (deletedLate \/ Speaking \in db.persons \ db'.persons)
         /\ UNCHANGED <<pc, exit, settings, set, params, file, memory, library,
                        busy, call, verdicts, ret, out>>
<1>1. PICK q \in late : /\ late' = late \ {q}
                        /\ \E a \in Api!Answers(db, q) : db' = a.db
  BY DEF LateArrives, Api!Arrive
<1>2. \E a \in Answers(db, q) : db' = a.db
  BY <1>1, SameAnswers
<1> QED  BY <1>1, <1>2 DEF LateArrives, Api!Arrive, Speaking
-----------------------------------------------------------------------------
(* The program starts as the invariants say.                               *)
LEMMA InitIInv == Init => IInv
<1> SUFFICES ASSUME Init
             PROVE  IInv
  OBVIOUS
<1>1. /\ Main \in Thread /\ Thread = {Main}
      /\ settings \in Settings /\ file \in FileSizes /\ db \in Database
      /\ SizeMax \in Nat
  BY ExampleAssumption DEF Init
<1>2. "init" \in {Script[i] : i \in DOMAIN Script}
  BY ScriptIs
<1>3. Len(settings) \in Nat
  BY <1>1, ExampleAssumption
<1>4. TypeOK
  <2>1. /\ DOMAIN params = TextParams \cup {"type"}
        /\ params["type"] \in -128 .. 127
        /\ \A key \in TextParams :
             params[key] \in [1 .. ParamSize[key] -> ParamChar \cup {ParamNul}]
    BY ExampleAssumption DEF Init
  <2>2. call[Main] = NoCall
    BY <1>1 DEF Init
  <2>3. set \in 0 .. Len(settings) /\ buf_len \in 0 .. SizeMax /\ exit \in {0, -1}
    BY <1>1, <1>3 DEF Init
  <2> QED  BY <1>1, <1>2, <2>1, <2>2, <2>3 DEF TypeOK, Init
<1>5. Shapes
  <2>1. << >> \in Seq({})
    OBVIOUS
  <2>2. IsSequence(<< >>)
    BY <2>1 DEF IsSequence
  <2> QED  BY <1>1, <2>2 DEF Shapes, Init
<1>6. ExitInv /\ MemoryInv
  BY DEF Init, ExitInv, MemoryInv, Preparing, HasFile, HasSpeech, EndsWell
<1>7. ParamsInv
  BY <1>3 DEF Init, ParamsInv
<1>8. CallInv
  BY <1>1 DEF Init, CallInv, Calling, NoCode, XVPR_CODE_SUCCESS
<1>9. LateInv /\ EnrolInv
  BY DEF Init, LateInv, EnrolInv
<1> QED  BY <1>4, <1>5, <1>6, <1>7, <1>8, <1>9 DEF IInv

(* Main's buffers: none is used before it is there, and none is freed      *)
(* twice.                                                                  *)
LEMMA StepMemory ==
  ASSUME TypeOK, Shapes, ExitInv, MemoryInv, Next
  PROVE  ExitInv' /\ MemoryInv'
<1> USE ScriptOrder
<1> USE DEF Preparing, HasFile, HasSpeech, EndsWell, Proceed, GiveUp, Die
<1>1. CASE UNCHANGED <<pc, exit, file, memory, library>>
  BY <1>1 DEF ExitInv, MemoryInv, memory, Samples
<1>2. CASE GlobalInit
  BY <1>2 DEF GlobalInit, ExitInv, MemoryInv, memory
<1>3. CASE SetParam
  <2>1. CASE pc' = pc
    BY <1>3, <2>1 DEF SetParam, ExitInv, MemoryInv, memory
  <2>2. CASE pc' # pc
    BY <1>3, <2>2 DEF SetParam, ExitInv, MemoryInv, memory
  <2> QED  BY <2>1, <2>2
<1>4. CASE AfterCall
  <2>1. /\ pc \in {"remove_person", "create_person", "get_info", "add_speech",
                   "register_person", "verify_person", "identify_person"}
        /\ UNCHANGED <<file, memory, library>>
        /\ Proceed \/ GiveUp
    BY <1>4, ScriptIs DEF AfterCall, TypeOK, API
  <2> QED  BY <2>1 DEF ExitInv, MemoryInv, memory, Samples
<1>5. CASE ReadBuffer
  <2>1. /\ file \in FileSizes /\ file \in Int /\ Skip \in Nat
        /\ file # -1 \/ file < Skip
    BY ExampleAssumption DEF TypeOK
  <2>2. /\ pc = "read" /\ buffer = "null" /\ valid_buffer = "null"
        /\ valid_buffer' = valid_buffer /\ file' = file /\ exit = 0
    BY <1>5 DEF ReadBuffer, MemoryInv, ExitInv
  <2>3. Samples' = Samples
    BY <2>2 DEF Samples
  <2>4. buffer' \in {"null", "live"}
    BY <1>5, <2>2, MallocIs DEF ReadBuffer
  <2>5. file < Skip => buffer' = "null"
    BY <1>5, <2>1, <2>2, LengthIs DEF ReadBuffer
  <2>6. file >= Skip => buf_len' = Samples
    BY <1>5, <2>1, LengthIs DEF ReadBuffer
  <2>7. buffer' # "null" => buffer' = "live" /\ buf_len' = Samples'
    BY <2>1, <2>3, <2>4, <2>5, <2>6
  <2>8. Die \/ GiveUp \/ Proceed
    BY <1>5 DEF ReadBuffer
  <2>9. CASE Die \/ GiveUp
    BY <2>2, <2>4, <2>9 DEF ExitInv, MemoryInv
  <2>10. CASE Proceed
    BY <2>2, <2>4, <2>7, <2>10 DEF ExitInv, MemoryInv
  <2> QED  BY <2>8, <2>9, <2>10
<1>6. CASE CreateVad
  BY <1>6 DEF CreateVad, ExitInv, MemoryInv, memory, Samples
<1>7. CASE Detect
  <2>1. /\ pc = "detect" /\ valid_buffer = "null" /\ exit = 0
        /\ buffer' = buffer /\ file' = file /\ library' = library
        /\ valid_buffer' \in {"null", "live"}
        /\ buffer \in {"null", "live"}
    BY <1>7, MallocIs DEF Detect, MemoryInv, ExitInv
  <2>2. CASE buffer = "null"
    BY <1>7, <2>1, <2>2 DEF Detect, ExitInv, MemoryInv
  <2>3. CASE buffer = "live"
    <3>1. PICK n \in 0 .. buf_len :
                 /\ buf_len' = n
                 /\ IF n = 0 THEN GiveUp
                    ELSE IF valid_buffer' = "null" THEN Die ELSE Proceed
      BY <1>7, <2>3 DEF Detect
    <3>2. buf_len = Samples /\ Samples' = Samples /\ buf_len \in Nat
      <4>1. SizeMax \in Nat
        BY ExampleAssumption
      <4> QED  BY <2>1, <2>3, <4>1 DEF MemoryInv, Samples, TypeOK
    <3>3. n # 0 => buf_len' \in 1 .. Samples'
      BY <3>1, <3>2
    <3> QED  BY <2>1, <2>3, <3>1, <3>3 DEF ExitInv, MemoryInv
  <2> QED  BY <2>1, <2>2, <2>3
<1>8. CASE Release
  BY <1>8 DEF Release, ExitInv, MemoryInv, Free
<1>9. CASE Cleanup
  BY <1>9 DEF Cleanup, ExitInv, MemoryInv, memory
<1>10. CASE CallBegins \/ CallAsks \/ CallReturns \/ LateArrives
  BY <1>1, <1>10, BeginsIs, AsksIs, ReturnsIs, LateArrivesIs DEF Rest
<1> QED
  BY <1>2, <1>3, <1>4, <1>5, <1>6, <1>7, <1>8, <1>9, <1>10, Zenon DEF Next
-----------------------------------------------------------------------------
(* What a value leaves in an array: its characters and terminators, and    *)
(* it reads as the value if it has room for a terminator.                  *)
LEMMA CopiedIs ==
  ASSUME NEW size \in Nat \ {0}, NEW value \in Seq(ParamChar), NEW cells,
         cells = [c \in 1 .. size |-> Copied(value, c)]
  PROVE  /\ cells \in [1 .. size -> ParamChar \cup {ParamNul}]
         /\ ReadsAs(cells, value) <=> Len(value) < size
<1>1. /\ Len(value) \in Nat /\ \A i \in 1 .. Len(value) : value[i] \in ParamChar
      /\ ParamNul \notin ParamChar
  BY ParamAssumption
<1>2. \A c \in 1 .. size : cells[c] = Copied(value, c)
  OBVIOUS
<1>3. cells \in [1 .. size -> ParamChar \cup {ParamNul}]
  <2>1. \A c \in 1 .. size : Copied(value, c) \in ParamChar \cup {ParamNul}
    BY <1>1 DEF Copied
  <2> QED  BY <2>1
<1>4. cells \in Seq(ParamChar \cup {ParamNul}) /\ Len(cells) = size
  BY <1>3
<1>5. ASSUME Len(value) < size
      PROVE  ReadsAs(cells, value)
  <2>1. Len(value) + 1 \in 1 .. size /\ ~(Len(value) + 1 <= Len(value))
    BY <1>1, <1>5
  <2>2. cells[Len(value) + 1] = ParamNul
    BY <1>2, <2>1 DEF Copied
  <2>3. \A i \in 1 .. Len(value) : i \in 1 .. size /\ i <= Len(value)
    BY <1>1, <1>5
  <2>4. \A i \in 1 .. Len(value) : cells[i] = value[i] /\ value[i] # ParamNul
    BY <1>1, <1>2, <2>3 DEF Copied
  <2> QED  BY <1>4, <1>5, <2>2, <2>4 DEF ReadsAs
<1>6. ReadsAs(cells, value) => Len(value) < size
  BY <1>4 DEF ReadsAs
<1> QED  BY <1>3, <1>5, <1>6

(* A setting changes the array it names and leaves every other.            *)
LEMMA SetIs ==
  ASSUME TypeOK, SetParam, set # Len(settings)
  PROVE  LET key == settings[set + 1][1]
             value == settings[set + 1][2]
         IN  /\ set \in Nat /\ set + 1 \in 1 .. Len(settings)
             /\ set' = set + 1 /\ pc' = pc /\ exit' = exit
             /\ DOMAIN params' = DOMAIN params
             /\ params'["type"] \in -128 .. 127
             /\ \A k \in TextParams :
                  params'[k] = IF k = key
                               THEN [c \in 1 .. ParamSize[k] |-> Copied(value, c)]
                               ELSE params[k]
             /\ key \in TextParams => value \in Seq(ParamChar)
<1> DEFINE key == settings[set + 1][1]
           value == settings[set + 1][2]
<1>1. /\ Len(settings) \in Nat /\ DOMAIN settings = 1 .. Len(settings)
      /\ \A i \in DOMAIN settings :
           IF settings[i][1] = "type" THEN settings[i][2] \in Int
                                      ELSE settings[i][2] \in Seq(ParamChar)
  BY ExampleAssumption DEF TypeOK
<1>2. set \in Nat /\ set + 1 \in 1 .. Len(settings)
  <2>1. set \in 0 .. Len(settings)
    BY DEF TypeOK
  <2> DEFINE n == Len(settings)
  <2>2. n \in Nat /\ set \in 0 .. n /\ set # n
    BY <1>1, <2>1
  <2> HIDE DEF n
  <2>3. set \in Nat /\ set + 1 \in 1 .. n
    BY <2>2
  <2> QED  BY <2>3 DEF n
<1>3. set' = set + 1 /\ pc' = pc /\ exit' = exit /\ params' = Set(params, key, value)
  BY DEF SetParam
<1>4. IF key = "type" THEN value \in Int ELSE value \in Seq(ParamChar)
  BY <1>1, <1>2
<1>5. "type" \notin TextParams
  BY DEF TextParams
<1>6. /\ DOMAIN params = TextParams \cup {"type"}
      /\ params["type"] \in -128 .. 127
  BY DEF TypeOK
<1> HIDE DEF key, value
<1>7. CASE key \in TextParams
  <2> DEFINE cells == [c \in 1 .. ParamSize[key] |-> Copied(value, c)]
  <2>1. params' = [params EXCEPT ![key] = cells]
    <3>1. Set(params, key, value) =
            [params EXCEPT ![key] = Strncpy(params[key], ParamSize[key], value)]
      BY <1>5, <1>7 DEF Set
    <3>2. Strncpy(params[key], ParamSize[key], value) = cells
      BY DEF Strncpy
    <3> HIDE DEF cells
    <3> QED  BY <1>3, <3>1, <3>2, Zenon
  <2>2. key # "type"
    BY <1>5, <1>7
  <2> HIDE DEF cells
  <2>3. /\ DOMAIN params' = DOMAIN params /\ params'["type"] \in -128 .. 127
        /\ \A k \in TextParams : params'[k] = IF k = key THEN cells ELSE params[k]
    BY <1>6, <1>7, <2>1, <2>2
  <2>4. \A k \in TextParams :
          params'[k] = IF k = key
                       THEN [c \in 1 .. ParamSize[k] |-> Copied(value, c)]
                       ELSE params[k]
    BY <2>3 DEF cells
  <2> QED  BY <1>2, <1>3, <1>4, <2>2, <2>3, <2>4 DEF key, value
<1>8. CASE key = "type"
  <2>1. params' = [params EXCEPT !["type"] = Int8(value)]
    BY <1>3, <1>5, <1>8 DEF Set
  <2>2. Int8(value) \in -128 .. 127
    <3>1. value \in Int
      BY <1>4, <1>8
    <3>2. (value + 128) % 256 \in 0 .. 255
      BY <3>1
    <3> QED  BY <3>2 DEF Int8
  <2>3. /\ DOMAIN params' = DOMAIN params /\ params'["type"] \in -128 .. 127
        /\ \A k \in TextParams : params'[k] = params[k]
    BY <1>5, <1>6, <2>1, <2>2
  <2>4. \A k \in TextParams : k # key
    BY <1>5, <1>8
  <2> QED  BY <1>2, <1>3, <2>3, <2>4 DEF key, value
<1>9. CASE key \notin TextParams /\ key # "type"
  <2>1. params' = params
    BY <1>3, <1>9 DEF Set
  <2> QED  BY <1>2, <1>3, <1>6, <1>9, <2>1 DEF key, value
<1> QED  BY <1>7, <1>8, <1>9

(* The arrays hold the latest settings.                                    *)
LEMMA StepParams ==
  ASSUME TypeOK, Shapes, ParamsInv, Next
  PROVE  ParamsInv'
<1> USE ScriptOrder
<1>1. /\ Len(settings) \in Nat /\ settings' = settings
      /\ set \in 0 .. Len(settings)
  BY ExampleAssumption, BeginsIs, AsksIs, ReturnsIs, LateArrivesIs
     DEF TypeOK, Next, GlobalInit, SetParam, AfterCall, ReadBuffer, CreateVad,
         Detect, Release, Cleanup, Rest
<1>2. ASSUME UNCHANGED <<set, params>>,
             pc' = "init" => pc = "init",
             pc' \notin {"init", "setparam", "exit"} => set = Len(settings)
      PROVE  ParamsInv'
  BY <1>1, <1>2 DEF ParamsInv, LastBy
<1>3. CASE SetParam /\ set = Len(settings)
  <2>1. UNCHANGED <<set, params>> /\ pc' = "remove_person"
    BY <1>3 DEF SetParam, Proceed
  <2> QED  BY <1>2, <1>3, <2>1
<1>4. CASE SetParam /\ set # Len(settings)
  <2> DEFINE Holds(i) ==
        LET key == settings[i][1]
        IN  key \in TextParams /\ LastBy(set + 1, i) =>
              params'[key] = [c \in 1 .. ParamSize[key] |-> Copied(settings[i][2], c)]
  <2>1. set \in Nat /\ set' = set + 1 /\ pc' = "setparam"
    BY <1>4, SetIs DEF SetParam
  <2>2. Holds(set + 1)
    BY <1>4, SetIs
  <2>3. ASSUME NEW i \in 1 .. set
        PROVE  Holds(i)
    <3> DEFINE key == settings[i][1]
    <3> SUFFICES ASSUME key \in TextParams, LastBy(set + 1, i)
                 PROVE  params'[key] =
                          [c \in 1 .. ParamSize[key] |-> Copied(settings[i][2], c)]
      OBVIOUS
    <3>1. key # settings[set + 1][1] /\ LastBy(set, i)
      <4>1. /\ set + 1 \in i + 1 .. set + 1
            /\ \A j \in i + 1 .. set : j \in i + 1 .. set + 1
        BY <2>1
      <4> QED  BY <4>1 DEF LastBy
    <3>2. params'[key] = params[key]
      BY <1>4, <3>1, SetIs
    <3> QED  BY <3>1, <3>2 DEF ParamsInv
  <2>4. \A i \in 1 .. set + 1 : i \in 1 .. set \/ i = set + 1
    BY <2>1
  <2>5. \A i \in 1 .. set' : Holds(i)
    BY <2>1, <2>2, <2>3, <2>4
  <2> QED  BY <1>1, <2>1, <2>5 DEF ParamsInv, LastBy
<1>5. CASE GlobalInit
  <2>1. UNCHANGED <<set, params>> /\ pc' \in {"setparam", "exit"}
    BY <1>5 DEF GlobalInit, Proceed, GiveUp
  <2> QED  BY <1>2, <2>1
<1>6. CASE CallBegins \/ CallAsks \/ CallReturns \/ LateArrives
  <2>1. UNCHANGED <<set, params, pc>>
    BY <1>6, BeginsIs, AsksIs, ReturnsIs, LateArrivesIs DEF Rest
  <2> QED  BY <1>2, <2>1 DEF ParamsInv
<1>7. CASE AfterCall \/ ReadBuffer \/ CreateVad \/ Detect \/ Release \/ Cleanup
  <2>1. UNCHANGED <<set, params>>
    BY <1>7 DEF AfterCall, ReadBuffer, CreateVad, Detect, Release, Cleanup
  <2>2. pc \notin {"init", "setparam", "exit", "dead"}
    BY <1>7 DEF AfterCall, ReadBuffer, CreateVad, Detect, Release, Cleanup, API
  <2>3. pc' # "init"
    <3>1. Proceed \/ GiveUp \/ Die
      BY <1>7, Zenon
         DEF AfterCall, ReadBuffer, CreateVad, Detect, Release, Cleanup
    <3> QED
      BY <2>2, <3>1, ScriptIs DEF Proceed, GiveUp, Die, TypeOK
  <2> QED  BY <1>2, <2>1, <2>2, <2>3 DEF ParamsInv
<1> QED
  BY <1>3, <1>4, <1>5, <1>6, <1>7, Zenon DEF Next
-----------------------------------------------------------------------------
(* The actions but for those of calls, and what they leave alone.          *)
Others == \/ GlobalInit \/ SetParam \/ ReadBuffer \/ CreateVad \/ Detect
          \/ Release \/ Cleanup

LEMMA OthersLeave ==
  Others => /\ pc \notin API \cup {"exit", "dead"}
            /\ Proceed \/ GiveUp \/ Die \/ (pc' = "setparam" /\ UNCHANGED <<pc, exit>>)
            /\ UNCHANGED <<settings, file, api, deletedLate>>
BY DEF Others, GlobalInit, SetParam, ReadBuffer, CreateVad, Detect, Release,
       Cleanup, memory, API

(* What a call asks for is a request.                                      *)
LEMMA NextRequestIs ==
  ASSUME CallInv, Calling, Shapes,
         Len(verdicts[Main]) < Len(Posts(call[Main].op))
  PROVE  /\ NextRequest \in Request
         /\ NextRequest.id = Id /\ NextRequest.name = Speaker
         /\ Len(verdicts[Main]) + 1 \in 1 .. Len(Posts(pc))
         /\ NextRequest.post = Posts(pc)[Len(verdicts[Main]) + 1]
         /\ TakesSpeech(pc) => NextRequest.file = Speech
<1> DEFINE i == Len(verdicts[Main]) + 1
           file_ == IF TakesSpeech(pc) THEN Speech ELSE Empty
<1>1. pc \in API /\ call[Main] = MainCall
  BY DEF CallInv
<1>2. /\ call[Main].op = pc /\ call[Main].handle = Id
      /\ call[Main].name = Speaker /\ call[Main].speech = file_
  BY <1>1 DEF MainCall, ClientInit
<1>3. i \in 1 .. Len(Posts(pc))
  <2>1. Len(verdicts[Main]) \in Nat
    BY AppendFacts DEF Shapes
  <2>2. Len(verdicts[Main]) < Len(Posts(pc)) /\ Len(Posts(pc)) \in Nat
    BY <1>1, <1>2, MainPosts
  <2> QED  BY <2>1, <2>2
<1>4. Posts(pc)[i] \in PostKinds
  BY <1>1, <1>3, MainPosts
<1>5. NextRequest = [post |-> Posts(pc)[i], id |-> Id, name |-> Speaker,
                     file |-> file_]
  BY <1>2, SameApi DEF NextRequest, RequestOf, Api!Asked
<1>6. Id \in Group /\ Speaker \in Name /\ file_ \in Content
  BY ExampleAssumption DEF Content
<1>7. TakesSpeech(pc) => file_ = Speech
  OBVIOUS
<1> HIDE DEF file_, i
<1>8. NextRequest \in Request
  BY <1>4, <1>5, <1>6 DEF Request
<1> QED  BY <1>3, <1>5, <1>7, <1>8 DEF i

(* The variables hold what they should.                                    *)
LEMMA StepType ==
  ASSUME TypeOK, Shapes, CallInv, Next
  PROVE  TypeOK' /\ Shapes'
<1> DEFINE P == {Script[i] : i \in DOMAIN Script} \cup {"dead"}
<1>1. CASE CallBegins
  <2>1. MainCall \in Call
    <3>1. Id \in Group /\ Speaker \in Name /\ Speech \in Recording
      BY ExampleAssumption
    <3> QED  BY <1>1, <3>1, BeginsIs DEF MainCall, Call, ClientInit
  <2> QED  BY <1>1, <2>1, BeginsIs DEF TypeOK, Rest, memory
<1>2. CASE CallAsks
  <2>1. Calling
    BY <1>2, AsksIs DEF Calling
  <2>2. NextRequest \in Request
    BY <1>2, <2>1, AsksIs, NextRequestIs
  <2>3. db' \in Database
    <3>1. PICK a \in Answers(db, NextRequest) : db' = a.db
      BY <1>2, AsksIs
    <3>2. db \in Database
      BY DEF TypeOK
    <3> QED  BY <2>2, <3>1, <3>2, AnswersAreDatabases
  <2> QED  BY <1>2, <2>3, AsksIs DEF TypeOK, Rest, memory
<1>3. CASE CallReturns
  <2>1. Calling
    BY <1>3, ReturnsIs DEF Calling
  <2>2. late' \subseteq Request
    BY <1>3, <2>1, ReturnsIs, NextRequestIs DEF TypeOK
  <2> QED  BY <1>3, <2>2, ReturnsIs DEF TypeOK, Rest, memory
<1>4. CASE LateArrives
  <2>1. PICK q \in late :
               /\ late' = late \ {q}
               /\ \E a \in Answers(db, q) : db' = a.db
    BY <1>4, LateArrivesIs
  <2>2. db' \in Database
    BY <2>1, AnswersAreDatabases DEF TypeOK
  <2>3. late' \subseteq Request /\ deletedLate' \in BOOLEAN
    BY <1>4, <2>1, LateArrivesIs DEF TypeOK
  <2>4. Shapes'
    BY <1>4, LateArrivesIs DEF Shapes
  <2> QED  BY <1>4, <2>2, <2>3, <2>4, LateArrivesIs DEF TypeOK, memory
<1>5. CASE AfterCall
  <2>1. UNCHANGED <<settings, set, params, file, memory, library, busy, call,
                    verdicts, db, late, deletedLate>>
    BY <1>5 DEF AfterCall
  <2>2. pc' \in P /\ exit' \in {0, -1}
    <3>1. pc \notin {"exit", "dead"} /\ (Proceed \/ GiveUp)
      BY <1>5 DEF AfterCall, API
    <3> QED  BY <3>1, ScriptIs, ScriptOrder DEF TypeOK, Proceed, GiveUp
  <2>3. Shapes'
    BY <1>5, <2>1 DEF AfterCall, Shapes
  <2> QED  BY <2>1, <2>2, <2>3 DEF TypeOK, memory
<1>6. CASE Others
  <2>1. /\ pc \notin {"exit", "dead"}
        /\ Proceed \/ GiveUp \/ Die \/ (pc' = "setparam" /\ UNCHANGED <<pc, exit>>)
        /\ UNCHANGED <<settings, file, busy, call, verdicts, ret, db, late, deletedLate>>
    BY <1>6, OthersLeave DEF api
  <2>2. pc' \in P /\ exit' \in {0, -1}
    BY <2>1, ScriptIs, ScriptOrder DEF TypeOK, Proceed, GiveUp, Die
  <2>3. Shapes'
    BY <2>1 DEF Shapes
  <2>4. /\ set' \in 0 .. Len(settings)
        /\ DOMAIN params' = TextParams \cup {"type"}
        /\ params'["type"] \in -128 .. 127
        /\ \A key \in TextParams :
             params'[key] \in [1 .. ParamSize[key] -> ParamChar \cup {ParamNul}]
    <3>1. CASE UNCHANGED <<set, params>>
      BY <3>1 DEF TypeOK
    <3>2. CASE SetParam /\ set # Len(settings)
      <4>1. ParamSize \in [TextParams -> Nat \ {0}]
        BY ParamAssumption
      <4>2. set' \in 0 .. Len(settings) /\ Len(settings) \in Nat
        <5>1. /\ set' = set + 1 /\ set + 1 \in 1 .. Len(settings) /\ set \in Nat
          BY <3>2, SetIs
        <5> QED  BY <5>1, ExampleAssumption DEF TypeOK
      <4>3. DOMAIN params' = DOMAIN params /\ params'["type"] \in -128 .. 127
        BY <3>2, SetIs
      <4>4. ASSUME NEW key \in TextParams
            PROVE  params'[key] \in [1 .. ParamSize[key] -> ParamChar \cup {ParamNul}]
        <5>1. CASE key = settings[set + 1][1]
          <6> DEFINE value == settings[set + 1][2]
                     cells == [c \in 1 .. ParamSize[key] |-> Copied(value, c)]
          <6>1. params'[key] = cells
            BY <3>2, <5>1, SetIs
          <6>2. value \in Seq(ParamChar) /\ ParamSize[key] \in Nat \ {0}
            BY <3>2, <4>1, <5>1, SetIs
          <6>3. cells \in [1 .. ParamSize[key] -> ParamChar \cup {ParamNul}]
            <7> HIDE DEF value
            <7> QED  BY <6>2, CopiedIs
          <6> QED  BY <6>1, <6>3
        <5>2. CASE key # settings[set + 1][1]
          BY <3>2, <5>2, SetIs DEF TypeOK
        <5> QED  BY <5>1, <5>2
      <4> QED  BY <4>2, <4>3, <4>4 DEF TypeOK
    <3> QED
      BY <1>6, <3>1, <3>2
         DEF Others, GlobalInit, SetParam, ReadBuffer, CreateVad, Detect,
             Release, Cleanup
  <2>5. /\ {buffer', valid_buffer'} \subseteq {"null", "live", "freed", "freed_twice"}
        /\ buf_len' \in 0 .. SizeMax
    <3>1. CASE ReadBuffer
      BY <3>1, LengthIs, MallocIs DEF ReadBuffer, TypeOK
    <3>2. CASE Detect
      <4>1. SizeMax \in Nat /\ buf_len \in 0 .. SizeMax
        BY ExampleAssumption DEF TypeOK
      <4>2. buf_len' \in 0 .. buf_len
        BY <3>2, <4>1 DEF Detect
      <4>3. valid_buffer' \in {"null", "live"} /\ buffer' = buffer
        BY <3>2, MallocIs DEF Detect
      <4> QED  BY <4>1, <4>2, <4>3 DEF TypeOK
    <3>3. CASE Release
      BY <3>3 DEF Release, Free, TypeOK
    <3>4. CASE UNCHANGED memory
      BY <3>4 DEF memory, TypeOK
    <3> QED
      BY <1>6, <3>1, <3>2, <3>3, <3>4 DEF Others, GlobalInit, SetParam,
         CreateVad, Cleanup
  <2>6. library' \in BOOLEAN
    BY <1>6 DEF Others, GlobalInit, SetParam, ReadBuffer, CreateVad, Detect,
       Release, Cleanup, TypeOK
  <2> QED  BY <2>1, <2>2, <2>3, <2>4, <2>5, <2>6 DEF TypeOK
<1> QED
  BY <1>1, <1>2, <1>3, <1>4, <1>5, <1>6, Zenon DEF Next, Others
-----------------------------------------------------------------------------
(* A call is about main's statement; its answers but the last are          *)
(* successes; success means that all of them are.                          *)
LEMMA StepCall ==
  ASSUME TypeOK, Shapes, CallInv, Next
  PROVE  CallInv'
<1>1. /\ Len(verdicts[Main]) \in Nat
      /\ XVPR_CODE_FAIL # XVPR_CODE_SUCCESS
      /\ XVPR_CODE_CONNECT_ERR # XVPR_CODE_SUCCESS /\ NoCode # XVPR_CODE_SUCCESS
  BY AppendFacts
     DEF Shapes, XVPR_CODE_FAIL, XVPR_CODE_SUCCESS, XVPR_CODE_CONNECT_ERR, NoCode
<1>2. CASE CallBegins
  <2>1. /\ pc' = pc /\ MainCall' = MainCall
    BY <1>2, BeginsIs DEF Rest, MainCall
  <2>2. /\ pc \in API /\ call'[Main] = MainCall /\ ret'[Main] = NoCode
        /\ verdicts'[Main] = << >> /\ Len(Posts(pc)) \in {1, 2}
    BY <1>2, BeginsIs, MainPosts
  <2> QED  BY <1>1, <2>1, <2>2 DEF CallInv, Calling
<1>3. CASE CallAsks
  <2> DEFINE n == Len(verdicts[Main])
  <2>1. /\ busy[Main] /\ AllDone /\ n < Len(Posts(call[Main].op))
        /\ UNCHANGED <<pc, busy, call, ret>>
    BY <1>3, AsksIs DEF Rest
  <2>2. PICK e : verdicts'[Main] = Append(verdicts[Main], e)
    BY <1>3, AsksIs
  <2>3. /\ Len(verdicts'[Main]) = n + 1
        /\ \A i \in 1 .. n : verdicts'[Main][i] = verdicts[Main][i]
    BY <2>2, AppendFacts DEF Shapes
  <2>4. Calling
    BY <2>1 DEF Calling
  <2>5. pc \in API /\ call[Main] = MainCall /\ call[Main].op = pc /\ MainCall' = MainCall
    BY <2>1, <2>4 DEF CallInv, MainCall
  <2>6. n + 1 <= Len(Posts(pc))
    BY <1>1, <2>1, <2>5, MainPosts
  <2>7. \A i \in 1 .. n : verdicts'[Main][i].code = XVPR_CODE_SUCCESS
    BY <2>1, <2>3 DEF AllDone
  <2>8. n + 1 - 1 = n
    BY <1>1
  <2>9. ret[Main] = NoCode
    BY <2>1 DEF CallInv
  <2>10. /\ Len(verdicts'[Main]) <= Len(Posts(pc'))
         /\ \A i \in 1 .. Len(verdicts'[Main]) - 1 :
              verdicts'[Main][i].code = XVPR_CODE_SUCCESS
    <3>1. pc' = pc
      BY <2>1
    <3>2. Len(verdicts'[Main]) - 1 = n
      <4> DEFINE l == Len(verdicts'[Main])
      <4>1. l = n + 1 /\ n \in Nat
        BY <1>1, <2>3
      <4> HIDE DEF l, n
      <4>2. l - 1 = n
        BY <4>1
      <4> QED  BY <4>2 DEF l
    <3>3. Len(verdicts'[Main]) <= Len(Posts(pc'))
      BY <2>3, <2>6, <3>1, Zenon
    <3> HIDE DEF n
    <3> QED  BY <2>7, <3>2, <3>3, Zenon
  <2>11. ret'[Main] = NoCode /\ busy'[Main] /\ pc' \in API /\ call'[Main] = MainCall'
    BY <2>1, <2>5, <2>9
  <2> QED  BY <1>1, <2>10, <2>11 DEF CallInv
<1>4. CASE CallReturns
  <2> DEFINE n == Len(verdicts[Main])
  <2>1. /\ busy[Main] /\ busy'[Main] = FALSE
        /\ UNCHANGED <<pc, call, verdicts>>
    BY <1>4, ReturnsIs DEF Rest
  <2>2. Calling
    BY <2>1 DEF Calling
  <2>3. /\ pc \in API /\ call[Main] = MainCall /\ call[Main].op = pc
        /\ n <= Len(Posts(pc))
        /\ \A i \in 1 .. n - 1 : verdicts[Main][i].code = XVPR_CODE_SUCCESS
        /\ MainCall' = MainCall
    BY <2>1, <2>2 DEF CallInv, MainCall
  <2>4. ret'[Main] = XVPR_CODE_SUCCESS => Answered
    <3>1. CASE AllDone /\ ~(n < Len(Posts(call[Main].op)))
      <4>1. n # 0
        <5>1. Len(Posts(pc)) \in {1, 2}
          BY <2>3, MainPosts
        <5>2. ~(n < Len(Posts(pc)))
          BY <2>3, <3>1
        <5> QED  BY <1>1, <5>1, <5>2
      <4>2. verdicts[Main] # << >>
        BY <4>1
      <4> QED  BY <3>1, <4>2 DEF Answered
    <3>2. CASE ~AllDone /\ ret'[Main] = verdicts[Main][n].code
      <4>1. PICK i \in 1 .. n : verdicts[Main][i].code # XVPR_CODE_SUCCESS
        BY <3>2 DEF AllDone
      <4>2. i = n
        BY <1>1, <2>3, <4>1
      <4> QED  BY <3>2, <4>1, <4>2
    <3> QED  BY <1>1, <1>4, <3>1, <3>2, ReturnsIs
  <2>5. Answered' = Answered
    BY <2>1 DEF Answered, AllDone
  <2> QED  BY <2>1, <2>3, <2>4, <2>5 DEF CallInv
<1>5. CASE AfterCall
  <2>1. ~busy[Main] /\ ret'[Main] = NoCode /\ busy' = busy
    BY <1>5, ExampleAssumption DEF AfterCall, Shapes
  <2> QED  BY <1>1, <2>1 DEF CallInv, Calling
<1>6. CASE LateArrives
  <2>1. UNCHANGED <<pc, busy, call, verdicts, ret>>
    BY <1>6, LateArrivesIs
  <2> QED
    BY <2>1 DEF CallInv, Calling, Answered, AllDone, MainCall
<1>7. CASE Others
  <2>1. UNCHANGED <<busy, call, verdicts, ret>> /\ pc \notin API
    BY <1>7, OthersLeave DEF api
  <2>2. ~Calling
    BY <2>1 DEF CallInv
  <2>3. ~Calling' /\ Answered' = Answered
    BY <2>1, <2>2 DEF Calling, Answered, AllDone
  <2> QED  BY <2>1, <2>2, <2>3 DEF CallInv, Calling
<1> QED
  BY <1>2, <1>3, <1>4, <1>5, <1>6, <1>7, Zenon DEF Next, Others

(* A program that has not given up leaves nothing behind that could take   *)
(* away what the service has learnt, but deletions of the speaker.         *)
LEMMA StepLate ==
  ASSUME TypeOK, Shapes, ExitInv, CallInv, LateInv, Next
  PROVE  LateInv'
<1>1. CASE late' = late /\ UNCHANGED <<pc, exit, ret>>
  BY <1>1 DEF LateInv, Lost
<1>2. CASE CallBegins
  <2>1. /\ ret[Main] = NoCode /\ ret'[Main] = NoCode
        /\ UNCHANGED <<pc, exit, late>>
    BY <1>2, BeginsIs DEF Rest
  <2> QED  BY <2>1 DEF LateInv, Lost
<1>3. CASE CallAsks
  BY <1>1, <1>3, AsksIs DEF Rest
<1>4. CASE CallReturns
  <2>1. /\ busy[Main] /\ UNCHANGED <<pc, exit>>
    BY <1>4, ReturnsIs DEF Rest
  <2>2. Calling /\ ~Lost /\ pc \in API
    BY <2>1 DEF Calling, CallInv, Lost, NoCode, XVPR_CODE_CONNECT_ERR
  <2>3. CASE late' = late
    BY <2>1, <2>2, <2>3 DEF LateInv
  <2>4. CASE /\ ret'[Main] = XVPR_CODE_CONNECT_ERR
             /\ Len(verdicts[Main]) < Len(Posts(call[Main].op))
             /\ late' = late \cup {NextRequest}
    <3>1. /\ NextRequest.id = Id /\ NextRequest.name = Speaker
          /\ pc \in Ignored => NextRequest.post \in Harmless
      BY <2>2, <2>4, NextRequestIs, MainPosts
    <3> QED  BY <2>1, <2>2, <2>4, <3>1 DEF LateInv, Lost
  <2> QED  BY <1>4, <2>3, <2>4, ReturnsIs
<1>5. CASE AfterCall
  <2>1. Lost => exit' = -1
    BY <1>5 DEF AfterCall, Lost, GiveUp, XVPR_CODE_CONNECT_ERR, XVPR_CODE_SUCCESS
  <2>2. late' = late /\ exit' \in {exit, -1}
    BY <1>5 DEF AfterCall, GiveUp, Proceed
  <2> QED  BY <2>1, <2>2 DEF LateInv
<1>6. CASE LateArrives
  <2>1. late' \subseteq late /\ UNCHANGED <<pc, exit, ret>>
    BY <1>6, LateArrivesIs
  <2> QED  BY <2>1 DEF LateInv, Lost
<1>7. CASE Others
  <2>1. UNCHANGED <<ret, late>> /\ pc \notin API /\ exit' \in {exit, -1}
    BY <1>7, OthersLeave DEF api, Proceed, GiveUp, Die
  <2>2. ~Lost
    BY <2>1 DEF CallInv, Calling, Lost, NoCode, XVPR_CODE_CONNECT_ERR
  <2> QED  BY <2>1, <2>2 DEF LateInv
<1> QED
  BY <1>2, <1>3, <1>4, <1>5, <1>6, <1>7, Zenon DEF Next, Others
(* What the service has learnt of the speaker.                             *)
LEMMA StepEnrol ==
  ASSUME TypeOK, Shapes, ExitInv, CallInv, LateInv, EnrolInv, Next
  PROVE  EnrolInv'
<1> USE ScriptOrder
<1> DEFINE Trained == {"verify_person", "identify_person", "release",
                       "release_valid", "cleanup", "exit"}
<1>1. /\ Len(verdicts[Main]) \in Nat
      /\ db \in Database /\ late \subseteq Request
      /\ NoCode # XVPR_CODE_CONNECT_ERR
      /\ XVPR_CODE_SUCCESS # XVPR_CODE_CONNECT_ERR
  BY AppendFacts
     DEF Shapes, TypeOK, NoCode, XVPR_CODE_CONNECT_ERR, XVPR_CODE_SUCCESS
<1>2. CASE CallBegins
  <2>1. /\ UNCHANGED <<pc, exit, db, deletedLate>>
        /\ ret[Main] = NoCode /\ ~busy[Main] /\ verdicts'[Main] = << >>
    BY <1>2, BeginsIs DEF Rest
  <2>2. ~Calling /\ ~Lost /\ ~Answered'
    BY <1>1, <2>1 DEF Calling, Lost, Answered
  <2> QED  BY <2>1, <2>2 DEF EnrolInv
<1>3. CASE CallAsks
  <2>1. /\ UNCHANGED <<pc, exit, busy, ret, deletedLate>>
        /\ busy[Main] /\ AllDone
        /\ Len(verdicts[Main]) < Len(Posts(call[Main].op))
    BY <1>3, AsksIs DEF Rest
  <2>2. PICK a \in Answers(db, NextRequest) :
               /\ db' = a.db
               /\ verdicts'[Main] =
                    Append(verdicts[Main], [code |-> a.code, data |-> a.data])
    BY <1>3, AsksIs
  <2> DEFINE n == Len(verdicts[Main])
             q == NextRequest
  <2>3. Calling /\ Calling' /\ pc \in API
    BY <2>1 DEF Calling, CallInv
  <2>4. /\ q \in Request /\ q.id = Id /\ q.name = Speaker
        /\ n + 1 \in 1 .. Len(Posts(pc)) /\ q.post = Posts(pc)[n + 1]
        /\ TakesSpeech(pc) => q.file = Speech
    BY <2>1, <2>3, NextRequestIs
  <2>5. Answered' <=> a.code = XVPR_CODE_SUCCESS
    <3> DEFINE e == [code |-> a.code, data |-> a.data]
    <3>1. verdicts'[Main] = Append(verdicts[Main], e) /\ e.code = a.code
      BY <2>2
    <3> HIDE DEF e
    <3>2. /\ Len(verdicts'[Main]) = n + 1 /\ verdicts'[Main][n + 1] = e
          /\ \A i \in 1 .. n : verdicts'[Main][i] = verdicts[Main][i]
          /\ verdicts'[Main] # << >>
      BY <3>1, AppendFacts DEF Shapes
    <3>3. /\ n + 1 \in 1 .. n + 1
          /\ \A i \in 1 .. n + 1 : i \in 1 .. n \/ i = n + 1
      BY <1>1
    <3>4. \A i \in 1 .. n : verdicts[Main][i].code = XVPR_CODE_SUCCESS
      BY <2>1 DEF AllDone
    <3> HIDE DEF n
    <3> QED  BY <3>1, <3>2, <3>3, <3>4 DEF Answered, AllDone
  <2>6. Answered <=> n # 0
    BY <1>1, <2>1, AppendFacts DEF Answered, Shapes, IsSequence
  <2> HIDE DEF q, n
  <2>7. q.post = "model/verify" \/ q.post = "model/identify_2" => db' = db
    BY <1>1, <2>2, <2>4, RecognitionReads DEF q
  <2>8. a.code # XVPR_CODE_SUCCESS => db' = db
    BY <1>1, <2>2, <2>4, AnswerIs DEF q
  <2>9. CASE pc = "add_speech"
    <3>1. n + 1 = 1 /\ q.post = "speech/add" /\ q.file = Speech
      BY <1>1, <2>3, <2>4, <2>9, MainPosts DEF TakesSpeech
    <3>2. Answered' => Remembers(db)'
      BY <1>1, <2>2, <2>4, <2>5, <3>1, AddedIsRemembered DEF q, Remembers
    <3> QED  BY <2>1, <2>9, <3>2 DEF EnrolInv, Remembers, Knows
  <2>10. CASE pc = "register_person"
    <3>1. n = 0 /\ q.post = "model/train"
      <4>1. Posts(pc) = <<"model/train">> /\ n \in Nat
        BY <1>1, <2>10, MainPosts DEF API, n
      <4> QED  BY <2>4, <4>1
    <3>2. ~Answered
      BY <2>6, <3>1
    <3>3. Remembers(db) /\ Answered' => Knows(db')
      BY <1>1, <2>2, <2>4, <2>5, <3>1, TrainedIsKnown DEF q
    <3>4. ASSUME exit = 0, ~Lost, ~deletedLate
          PROVE  IF Answered' THEN Knows(db') ELSE Remembers(db')
      <4>1. Remembers(db)
        BY <2>10, <3>2, <3>4 DEF EnrolInv
      <4> QED  BY <2>5, <2>8, <3>3, <4>1
    <3> QED  BY <2>1, <2>3, <2>10, <3>4 DEF EnrolInv, Lost
  <2>11. CASE pc \notin {"add_speech", "register_person"}
    <3>1. CASE pc \in {"verify_person", "identify_person"}
      <4>1. q.post = "model/verify" \/ q.post = "model/identify_2"
        BY <1>1, <2>3, <2>4, <3>1, MainPosts
      <4>2. db' = db
        BY <2>7, <4>1
      <4> QED  BY <2>1, <3>1, <4>2 DEF EnrolInv, Lost
    <3>2. CASE pc \notin {"verify_person", "identify_person"}
      <4>1. pc' \notin Trained \cup {"add_speech", "register_person"}
        BY <2>1, <2>3, <2>11, <3>2 DEF API
      <4> QED  BY <4>1 DEF EnrolInv
    <3> QED  BY <3>1, <3>2
  <2> QED  BY <2>9, <2>10, <2>11
<1>4. CASE CallReturns
  <2>1. /\ UNCHANGED <<pc, exit, verdicts, db, deletedLate>> /\ busy[Main]
    BY <1>4, ReturnsIs DEF Rest
  <2>2. Calling /\ ~Lost
    BY <1>1, <2>1 DEF Calling, Lost, CallInv
  <2>3. Answered' = Answered
    BY <2>1 DEF Answered, AllDone
  <2>4. Answered => Calling'
    <3>1. Answered => ret'[Main] \in {XVPR_CODE_SUCCESS, XVPR_CODE_FAIL,
                                      XVPR_CODE_CONNECT_ERR}
      BY <1>4, ReturnsIs DEF Answered
    <3> QED
      BY <3>1 DEF Calling, NoCode, XVPR_CODE_SUCCESS, XVPR_CODE_FAIL,
         XVPR_CODE_CONNECT_ERR
  <2> QED  BY <2>1, <2>2, <2>3, <2>4 DEF EnrolInv
<1>5. CASE AfterCall
  <2>1. /\ ~busy[Main] /\ ret[Main] # NoCode /\ pc \in API
        /\ UNCHANGED <<verdicts, db, deletedLate>>
    BY <1>5 DEF AfterCall
  <2>2. ~Calling' /\ ~Lost'
    <3>1. ret'[Main] = NoCode /\ busy' = busy
      BY <1>5, ExampleAssumption DEF AfterCall, Shapes
    <3> QED  BY <1>1, <2>1, <3>1 DEF Calling, Lost
  <2>3. Calling
    BY <2>1 DEF Calling
  <2>4. CASE GiveUp
    BY <2>4 DEF GiveUp, EnrolInv
  <2>5. CASE Proceed /\ (ret[Main] = XVPR_CODE_SUCCESS \/ pc \in Ignored)
    <3>1. ~Lost /\ exit' = exit /\ pc' = Behind(pc)
      BY <1>1, <2>5 DEF Lost, Proceed
    <3>2. pc \notin Ignored => Answered
      BY <2>5 DEF CallInv
    <3>3. pc \in {"remove_person", "create_person", "get_info", "add_speech",
                  "register_person", "verify_person", "identify_person"}
      BY <2>1, ScriptIs DEF TypeOK, API
    <3>4. CASE pc \in {"remove_person", "create_person", "get_info"}
      <4>1. pc' \notin Trained \cup {"add_speech", "register_person"}
        BY <3>1, <3>4
      <4> QED  BY <4>1 DEF EnrolInv
    <3>5. CASE pc = "add_speech"
      <4>1. exit = 0 /\ ~deletedLate => Remembers(db)
        BY <2>3, <3>1, <3>2, <3>5 DEF EnrolInv, Ignored
      <4>2. pc' = "register_person"
        BY <3>1, <3>5
      <4> QED
        BY <2>1, <2>2, <3>1, <4>1, <4>2 DEF EnrolInv, Remembers
    <3>6. CASE pc \in {"register_person", "verify_person", "identify_person"}
      <4>1. exit = 0 /\ ~deletedLate => Knows(db)
        BY <2>3, <3>1, <3>2, <3>6 DEF EnrolInv, Ignored
      <4>2. pc' \in Trained
        BY <3>1, <3>6
      <4> QED
        BY <2>1, <2>2, <3>1, <4>1, <4>2 DEF EnrolInv, Knows
    <3> QED  BY <3>3, <3>4, <3>5, <3>6
  <2> QED  BY <1>5, <2>4, <2>5 DEF AfterCall
<1>6. CASE LateArrives
  <2>1. /\ UNCHANGED <<pc, exit, busy, verdicts, ret>>
        /\ deletedLate' = (deletedLate \/ Speaking \in db.persons \ db'.persons)
    BY <1>6, LateArrivesIs
  <2>0. PICK q \in late : \E a \in Answers(db, q) : db' = a.db
    BY <1>6, LateArrivesIs
  <2>2. PICK a \in Answers(db, q) : db' = a.db
    BY <2>0
  <2>3. SUFFICES ASSUME exit = 0, ~Lost, ~deletedLate'
                 PROVE  EnrolInv'
    BY <2>1 DEF EnrolInv, Lost
  <2>4. q \in Request /\ q.id = Id /\ q.name = Speaker /\ q.post \in Harmless
    BY <1>1, <2>2, <2>3 DEF LateInv
  <2>5. ~deletedLate /\ KeyOf(q) \notin db.persons \ a.db.persons
    BY <2>1, <2>2, <2>3, <2>4, SpeakingIsKey
  <2>6. (Remembers(db) => Remembers(db')) /\ (Knows(db) => Knows(db'))
    BY <1>1, <2>2, <2>4, <2>5, HarmlessArrives
  <2>7. Calling' = Calling /\ Answered' = Answered /\ Lost' = Lost
    BY <2>1 DEF Calling, Answered, AllDone, Lost
  <2>8. Remembers(db)' = Remembers(db') /\ Knows(db)' = Knows(db')
    BY DEF Remembers, Knows
  <2> QED  BY <2>1, <2>3, <2>5, <2>6, <2>7, <2>8 DEF EnrolInv
<1>7. CASE Others
  <2>1. /\ UNCHANGED <<busy, verdicts, ret, db, deletedLate>>
        /\ pc \notin API \cup {"exit", "dead"}
        /\ Proceed \/ GiveUp \/ Die \/ (pc' = "setparam" /\ UNCHANGED <<pc, exit>>)
    BY <1>7, OthersLeave DEF api
  <2>2. ~Calling /\ ~Lost /\ exit = 0
    BY <1>1, <2>1 DEF CallInv, Calling, Lost, ExitInv
  <2>3. ~Calling'
    BY <2>1, <2>2 DEF Calling
  <2>4. CASE Proceed
    <3>1. pc' = Behind(pc) /\ exit' = exit
      BY <2>4 DEF Proceed
    <3>2. pc \in {"init", "setparam", "read", "create_vad", "detect", "release",
                  "release_valid", "cleanup"}
      BY <2>1, ScriptIs DEF TypeOK, API
    <3>3. pc' = "register_person" => FALSE
      BY <3>1, <3>2
    <3>4. pc' \in Trained => pc \in Trained
      BY <3>1, <3>2
    <3> QED  BY <2>1, <2>2, <2>3, <3>1, <3>3, <3>4 DEF EnrolInv, Knows
  <2>5. CASE GiveUp
    BY <2>5 DEF GiveUp, EnrolInv
  <2>6. CASE Die
    BY <2>6 DEF Die, EnrolInv
  <2>7. CASE pc' = "setparam"
    BY <2>7 DEF EnrolInv
  <2> QED  BY <2>1, <2>4, <2>5, <2>6, <2>7
<1> QED
  BY <1>2, <1>3, <1>4, <1>5, <1>6, <1>7, Zenon DEF Next, Others

(* The invariant of the program.                                           *)
LEMMA Invariant == Spec => []IInv
<1>1. Init => IInv
  BY InitIInv
<1>2. IInv /\ [Next]_vars => IInv'
  <2> SUFFICES ASSUME IInv, [Next]_vars
               PROVE  IInv'
    OBVIOUS
  <2>1. CASE Next
    BY <2>1, StepType, StepMemory, StepParams, StepCall, StepLate, StepEnrol
       DEF IInv
  <2>2. CASE UNCHANGED vars
    <3>1. UNCHANGED <<pc, exit, settings, set, params, file, buffer,
                      valid_buffer, buf_len, library, busy, call, verdicts,
                      ret, db, late, deletedLate>>
      BY <2>2 DEF vars, memory, api
    <3>2. TypeOK' /\ Shapes' /\ ExitInv' /\ MemoryInv' /\ ParamsInv'
      BY <3>1 DEF IInv, TypeOK, Shapes, ExitInv, MemoryInv, Samples, EndsWell,
         ParamsInv, LastBy
    <3>3. CallInv' /\ LateInv'
      BY <3>1 DEF IInv, CallInv, Calling, Answered, AllDone, MainCall, LateInv, Lost
    <3>4. EnrolInv'
      BY <3>1 DEF IInv, EnrolInv, Calling, Answered, AllDone, Lost, Knows, Remembers
    <3> QED  BY <3>2, <3>3, <3>4 DEF IInv
  <2> QED  BY <2>1, <2>2
<1> QED  BY <1>1, <1>2, PTL DEF Spec

(* The variables of the example program hold what they should.             *)
THEOREM TypeCorrect == Spec => []TypeOK
<1>1. IInv => TypeOK
  BY DEF IInv
<1> QED  BY <1>1, Invariant, PTL

(* Whatever the file and the memory: main.c uploads nothing but what it    *)
(* has read from the file (src/main.c and xvpr_aid_read_buffer).           *)
THEOREM UploadsAreOfTheFile == Spec => []UploadIsOfTheFile
<1>1. IInv => UploadIsOfTheFile
  <2> SUFFICES ASSUME IInv, pc \in API, TakesSpeech(pc)
               PROVE  buffer = "live" /\ buf_len \in 1 .. Samples
    BY DEF UploadIsOfTheFile
  <2>1. pc \in HasSpeech
    BY DEF TakesSpeech, HasSpeech
  <2> QED  BY <2>1 DEF IInv, MemoryInv
<1> QED  BY <1>1, Invariant, PTL

(* Whatever fails: main.c frees no buffer twice, and all of them if it     *)
(* ends well.                                                              *)
THEOREM EndsFreeAll == Spec => []GoodEndFreesAll
<1>1. IInv => GoodEndFreesAll
  BY DEF IInv, MemoryInv, GoodEndFreesAll, EndsWell
<1> QED  BY <1>1, Invariant, PTL

(* Whatever the service holds and answers, and whatever calls the program  *)
(* takes no notice of: if main.c ends well, its speaker is enrolled and    *)
(* trained, unless a deletion that it gave up waiting for arrived late.    *)
THEOREM EndsEnrolled == Spec => []GoodEndIsEnrolled
<1>1. IInv => GoodEndIsEnrolled
  <2> SUFFICES ASSUME IInv, pc = "exit", exit = 0
               PROVE  Speech \in db.models[<<Id, Speaker>>] \/ deletedLate
    BY DEF GoodEndIsEnrolled
  <2>1. ~Lost
    <3>1. pc \notin API /\ NoCode # XVPR_CODE_CONNECT_ERR
      BY DEF API, NoCode, XVPR_CODE_CONNECT_ERR
    <3> QED  BY <3>1 DEF IInv, CallInv, Calling, Lost
  <2> QED  BY <2>1 DEF IInv, EnrolInv, Knows, Speaking
<1> QED  BY <1>1, Invariant, PTL

(* A set of numbers up to n has a greatest.                                *)
LEMMA Greatest ==
  ASSUME NEW n \in Nat, NEW S \in SUBSET (1 .. n), S # {}
  PROVE  \E m \in S : \A j \in S : j <= m
<1> DEFINE R == OpToRel(<, Nat)
           T == {n - j : j \in S}
<1>1. IsWellFoundedOn(R, Nat)
  BY NatLessThanWellFounded
<1>2. \A x, y \in Nat : x < y => <<x, y>> \in R
  BY DEF OpToRel
<1>3. T \in SUBSET Nat /\ T # {}
  <2>1. \A j \in S : n - j \in Nat
    OBVIOUS
  <2>2. PICK j \in S : TRUE
    OBVIOUS
  <2>3. n - j \in T
    OBVIOUS
  <2> QED  BY <2>1, <2>3
<1> HIDE DEF R
<1>4. PICK x \in T : \A y \in T : ~(<<y, x>> \in R)
  BY <1>1, <1>3, WFMin
<1>5. PICK m \in S : x = n - m
  BY <1>4
<1>6. \A j \in S : n - j \in T
  OBVIOUS
<1>7. \A j \in S : ~(n - j < n - m)
  BY <1>2, <1>3, <1>4, <1>5, <1>6
<1>8. \A j \in S : j \in Int
  OBVIOUS
<1> QED  BY <1>5, <1>7, <1>8

(* Whatever the sizes of the arrays and the values: every call of main.c   *)
(* finds each parameter as xvpr_global_setparam set it last, if the value  *)
(* leaves room for the terminator, and only then.                          *)
THEOREM ParamsAreInForce == Spec => []ParamsInForce
<1>1. IInv => ParamsInForce
  <2> SUFFICES ASSUME IInv, pc \in API, NEW i \in DOMAIN settings,
                      settings[i][1] \in TextParams,
                      i = LastSetting(settings[i][1])
               PROVE  ReadsAs(params[settings[i][1]], settings[i][2])
                        <=> Len(settings[i][2]) < ParamSize[settings[i][1]]
    BY DEF ParamsInForce
  <2> DEFINE key == settings[i][1]
             value == settings[i][2]
             n == Len(settings)
             S == {j \in DOMAIN settings : settings[j][1] = key}
  <2>1. /\ n \in Nat /\ DOMAIN settings = 1 .. n
        /\ key # "type" /\ value \in Seq(ParamChar)
    <3>1. key # "type"
      BY DEF TextParams
    <3> QED  BY <3>1, ExampleAssumption DEF IInv, TypeOK
  <2>2. S \in SUBSET (1 .. n) /\ S # {}
    BY <2>1
  <2>3. \A j \in S : j <= i
    <3>1. \E m \in S : \A j \in S : j <= m
      BY <2>1, <2>2, Greatest
    <3>2. i = CHOOSE m \in S : \A j \in S : j <= m
      BY DEF LastSetting
    <3> HIDE DEF S
    <3> QED  BY <3>1, <3>2
  <2>4. LastBy(n, i)
    <3>1. ASSUME NEW j \in i + 1 .. n
          PROVE  settings[j][1] # key
      <4>1. j \in 1 .. n /\ ~(j <= i)
        BY <2>1
      <4> QED  BY <2>1, <2>3, <4>1
    <3> QED  BY <3>1 DEF LastBy
  <2>5. set = n
    BY DEF IInv, ParamsInv, API
  <2>6. params[key] = [c \in 1 .. ParamSize[key] |-> Copied(value, c)]
    BY <2>1, <2>4, <2>5 DEF IInv, ParamsInv
  <2>7. ParamSize[key] \in Nat \ {0}
    BY ParamAssumption
  <2> HIDE DEF key, value
  <2>8. ReadsAs(params[key], value) <=> Len(value) < ParamSize[key]
    BY <2>1, <2>6, <2>7, CopiedIs
  <2> QED  BY <2>8 DEF key, value
<1> QED  BY <1>1, Invariant, PTL
=============================================================================
