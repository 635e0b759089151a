-------------------------- MODULE XvprClientProofs --------------------------
(***************************************************************************)
(* Proofs about XvprClient for any number of threads, groups, names,       *)
(* recordings and calls: uploads arrive as they were given; codes mean     *)
(* what they say; the calls implement ApiContract.                         *)
(***************************************************************************)
EXTENDS XvprClient, FiniteSetTheorems, TLAPS

-----------------------------------------------------------------------------
(***************************************************************************)
(* What the answers of the service may do to its database, for every       *)
(* database and request (VoiceprintServer.tla).                            *)
(***************************************************************************)

(* Sequences whose elements have no type of their own.                     *)
IsSequence(s) == \E S : s \in Seq(S)

(* One more verdict behind the others.                                     *)
LEMMA AppendFacts ==
  ASSUME NEW s, IsSequence(s), NEW e
  PROVE  /\ IsSequence(Append(s, e))
         /\ Len(s) \in Nat
         /\ Len(Append(s, e)) = Len(s) + 1
         /\ Append(s, e)[Len(s) + 1] = e
         /\ \A i \in 1 .. Len(s) : Append(s, e)[i] = s[i]
         /\ Append(s, e) # << >>
<1>1. PICK S : s \in Seq(S)
  BY DEF IsSequence
<1>2. s \in Seq(S \cup {e})
  BY <1>1
<1>3. Append(s, e) \in Seq(S \cup {e})
  BY <1>2
<1> QED  BY <1>2, <1>3 DEF IsSequence

(* d keeps the speeches of old or drops some, and adds at most q's upload, *)
(* for q's person, if q is a speech/add.                                   *)
SpeechesComeFrom(d, old, q) ==
  \A k \in Key : \A i \in 1 .. Len(d.speeches[k]) :
    \/ \E j \in 1 .. Len(old.speeches[k]) :
         d.speeches[k][i] = old.speeches[k][j]
    \/ /\ q.post = "speech/add"
       /\ k = KeyOf(q)
       /\ d.speeches[k][i] = q.file

(* What speech/reserve keeps of a person's speeches were the person's      *)
(* speeches before.                                                        *)
LEMMA LatestIsPart ==
  ASSUME NEW S, NEW s \in Seq(S), NEW n \in Nat
  PROVE  /\ Latest(s, n) \in Seq(S)
         /\ \A i \in 1 .. Len(Latest(s, n)) : \E j \in 1 .. Len(s) :
              Latest(s, n)[i] = s[j]
<1>1. CASE Len(s) <= n
  BY <1>1 DEF Latest
<1>2. CASE ~(Len(s) <= n)
  <2> DEFINE m == Len(s) - n
             u == SubSeq(s, m + 1, Len(s))
  <2>1. m \in Nat /\ Len(s) \in Nat /\ m + 1 \in 1 .. Len(s) + 1
    BY <1>2
  <2>2. Latest(s, n) = u
    BY <1>2 DEF Latest
  <2>3. u \in Seq(S) /\ Len(u) = n
    BY <2>1
  <2>4. \A i \in 1 .. n : u[i] = s[m + i]
    BY <2>1
  <2>5. \A i \in 1 .. n : m + i \in 1 .. Len(s)
    BY <2>1
  <2> HIDE DEF u, m
  <2> QED  BY <2>2, <2>3, <2>4, <2>5
<1> QED  BY <1>1, <1>2

(* So is what speech/delete leaves of them.                                *)
LEMMA WithoutIsPart ==
  ASSUME NEW S, NEW s \in Seq(S), NEW r,
         NEW j0 \in 1 .. Len(s), s[j0] = r
  PROVE  /\ Without(s, r) \in Seq(S)
         /\ \A i \in 1 .. Len(Without(s, r)) : \E j \in 1 .. Len(s) :
              Without(s, r)[i] = s[j]
<1> DEFINE p == CHOOSE i \in 1 .. Len(s) : s[i] = r
           m == Len(s) - 1
           u == [i \in 1 .. m |-> IF i < p THEN s[i] ELSE s[i + 1]]
<1>1. m \in Nat /\ Len(s) \in Nat
  OBVIOUS
<1>2. Without(s, r) = u
  BY DEF Without
<1>3. \A i \in 1 .. m : i \in 1 .. Len(s) /\ i + 1 \in 1 .. Len(s)
  OBVIOUS
<1>4. \A i \in 1 .. m : u[i] \in {s[i], s[i + 1]}
  <2> HIDE DEF p, m
  <2> QED  OBVIOUS
<1>5. \A i \in 1 .. m : u[i] \in S
  BY <1>3, <1>4
<1>6. u \in Seq(S) /\ Len(u) = m
  <2> HIDE DEF p, m
  <2> QED  BY <1>1, <1>5
<1> HIDE DEF u, m, p
<1>7. \A i \in 1 .. Len(u) : \E j \in 1 .. Len(s) : u[i] = s[j]
  BY <1>3, <1>4, <1>6
<1> QED  BY <1>2, <1>6, <1>7

(* speech/add leaves the old speeches and the upload.                      *)
LEMMA AppendComesFrom ==
  ASSUME NEW S, NEW s \in Seq(S), NEW r \in S
  PROVE  /\ Append(s, r) \in Seq(S)
         /\ \A i \in 1 .. Len(Append(s, r)) :
              \/ \E j \in 1 .. Len(s) : Append(s, r)[i] = s[j]
              \/ Append(s, r)[i] = r
<1>1. Append(s, r) \in Seq(S) /\ Len(Append(s, r)) = Len(s) + 1
  OBVIOUS
<1>2. \A i \in 1 .. Len(s) : Append(s, r)[i] = s[i]
  OBVIOUS
<1>3. Append(s, r)[Len(s) + 1] = r
  OBVIOUS
<1>4. \A i \in 1 .. Len(s) + 1 : i \in 1 .. Len(s) \/ i = Len(s) + 1
  OBVIOUS
<1> QED  BY <1>1, <1>2, <1>3, <1>4

(* Replacing the speeches of one key.                                      *)
LEMMA WithSpeechesIsDatabase ==
  ASSUME NEW old \in Database, NEW k \in Key, NEW s \in Seq(Content)
  PROVE  /\ WithSpeeches(old, k, s) \in Database
         /\ WithSpeeches(old, k, s).speeches[k] = s
         /\ \A l \in Key \ {k} :
              WithSpeeches(old, k, s).speeches[l] = old.speeches[l]
<1> DEFINE f == [old.speeches EXCEPT ![k] = s]
<1>1. f \in [Key -> Seq(Content)]
  BY DEF Database
<1>2. f[k] = s /\ \A l \in Key \ {k} : f[l] = old.speeches[l]
  BY DEF Database
<1>3. WithSpeeches(old, k, s) = [old EXCEPT !.speeches = f]
  BY DEF WithSpeeches
<1> HIDE DEF f
<1> QED  BY <1>1, <1>2, <1>3 DEF Database

(* Every database an effect leads to is one, and its speeches come from    *)
(* the old one or the request.                                             *)
LEMMA EffectsAreSound ==
  ASSUME NEW old \in Database, NEW q \in Request,
         NEW d \in Effects(old, q)
  PROVE  d \in Database /\ SpeechesComeFrom(d, old, q)
<1> DEFINE k == KeyOf(q)
<1>1. k \in Key
  BY DEF KeyOf, Key, Request
<1>2. /\ old.speeches \in [Key -> Seq(Content)]
      /\ old.models \in [Key -> SUBSET Content]
      /\ old.persons \in SUBSET Key
      /\ q.file \in Content
      /\ q.post \in PostKinds
  BY DEF Database, Request
<1>3. CASE q.post = "person/create"
  <2>1. d = Created(old, k)
    BY <1>3 DEF Effects
  <2>2. d \in Database /\ d.speeches = old.speeches
    BY <1>1, <2>1 DEF Created, Database
  <2> QED  BY <2>2 DEF SpeechesComeFrom
<1>4. CASE q.post = "person/delete"
  <2>1. d = Deleted(old, k)
    BY <1>4 DEF Effects
  <2> DEFINE none == << >>
             f == [old.speeches EXCEPT ![k] = none]
             g == [old.models EXCEPT ![k] = {}]
  <2>2. none \in Seq(Content)
    OBVIOUS
  <2>3. f \in [Key -> Seq(Content)] /\ g \in [Key -> SUBSET Content]
    <3> HIDE DEF none
    <3> QED  BY <1>1, <1>2, <2>2
  <2>4. f[k] = none /\ \A l \in Key \ {k} : f[l] = old.speeches[l]
    BY <1>1, <1>2
  <2>5. d = [persons |-> old.persons \ {k}, speeches |-> f, models |-> g]
    BY <2>1 DEF Deleted
  <2>6. Len(none) = 0
    OBVIOUS
  <2> HIDE DEF f, g, none
  <2>7. d \in Database /\ d.speeches = f
    BY <1>2, <2>3, <2>5 DEF Database
  <2>8. SpeechesComeFrom(d, old, q)
    BY <1>1, <2>4, <2>6, <2>7 DEF SpeechesComeFrom
  <2> QED  BY <2>7, <2>8
<1>5. CASE q.post = "speech/add"
  <2> DEFINE s == Append(old.speeches[k], q.file)
  <2>1. d = WithSpeeches(old, k, s)
    BY <1>5 DEF Effects
  <2>2. /\ s \in Seq(Content)
        /\ \A i \in 1 .. Len(s) :
             (\E j \in 1 .. Len(old.speeches[k]) : s[i] = old.speeches[k][j])
             \/ s[i] = q.file
    BY <1>1, <1>2, AppendComesFrom
  <2> HIDE DEF s
  <2>3. /\ d \in Database
        /\ d.speeches[k] = s
        /\ \A l \in Key \ {k} : d.speeches[l] = old.speeches[l]
    BY <1>1, <2>1, <2>2, WithSpeechesIsDatabase
  <2>4. SpeechesComeFrom(d, old, q)
    BY <1>1, <1>5, <2>2, <2>3 DEF SpeechesComeFrom
  <2> QED  BY <2>3, <2>4
<1>6. CASE q.post = "speech/delete"
  <2>1. PICK o \in Owners(old, q.file) :
               d = WithSpeeches(old, o, Without(old.speeches[o], q.file))
    BY <1>6 DEF Effects
  <2>2. o \in Key /\ q.file \in Heard(old.speeches[o])
    BY <1>2, <2>1 DEF Owners
  <2>3. PICK j0 \in 1 .. Len(old.speeches[o]) : old.speeches[o][j0] = q.file
    BY <2>2 DEF Heard
  <2> DEFINE s == Without(old.speeches[o], q.file)
  <2>4. /\ s \in Seq(Content)
        /\ \A i \in 1 .. Len(s) :
             \E j \in 1 .. Len(old.speeches[o]) : s[i] = old.speeches[o][j]
    BY <1>2, <2>2, <2>3, WithoutIsPart
  <2>5. d = WithSpeeches(old, o, s)
    BY <2>1
  <2> HIDE DEF s
  <2>6. /\ d \in Database
        /\ d.speeches[o] = s
        /\ \A l \in Key \ {o} : d.speeches[l] = old.speeches[l]
    BY <2>2, <2>4, <2>5, WithSpeechesIsDatabase
  <2>7. SpeechesComeFrom(d, old, q)
    <3> SUFFICES ASSUME NEW p \in Key, NEW i \in 1 .. Len(d.speeches[p])
                 PROVE  \E j \in 1 .. Len(old.speeches[p]) :
                          d.speeches[p][i] = old.speeches[p][j]
      BY DEF SpeechesComeFrom
    <3>1. CASE p = o
      BY <2>4, <2>6, <3>1
    <3>2. CASE p # o
      BY <2>6, <3>2
    <3> QED  BY <3>1, <3>2
  <2> QED  BY <2>6, <2>7
<1>7. CASE q.post = "speech/reserve"
  <2> DEFINE s == Latest(old.speeches[k], Reserve)
  <2>1. d = WithSpeeches(old, k, s)
    BY <1>7 DEF Effects
  <2>2. /\ s \in Seq(Content)
        /\ \A i \in 1 .. Len(s) :
             \E j \in 1 .. Len(old.speeches[k]) : s[i] = old.speeches[k][j]
    <3>1. PICK a \in Seq(Content) : a = old.speeches[k]
      BY <1>1, <1>2
    <3>2. Reserve \in Nat
      BY ServerAssumption
    <3>3. PICK u : u = Latest(a, Reserve)
      OBVIOUS
    <3>4. /\ u \in Seq(Content)
          /\ \A i \in 1 .. Len(u) : \E j \in 1 .. Len(a) : u[i] = a[j]
      BY ONLY <3>2, <3>3, LatestIsPart
    <3> QED  BY <3>1, <3>3, <3>4
  <2> HIDE DEF s
  <2>3. /\ d \in Database
        /\ d.speeches[k] = s
        /\ \A l \in Key \ {k} : d.speeches[l] = old.speeches[l]
    BY <1>1, <2>1, <2>2, WithSpeechesIsDatabase
  <2>4. SpeechesComeFrom(d, old, q)
    BY <1>1, <2>2, <2>3 DEF SpeechesComeFrom
  <2> QED  BY <2>3, <2>4
<1>8. CASE q.post = "model/train"
  <2>1. d = WithModel(old, k)
    BY <1>8 DEF Effects
  <2>2. Heard(old.speeches[k]) \in SUBSET Content
    BY <1>1, <1>2 DEF Heard
  <2> DEFINE g == [old.models EXCEPT ![k] = Heard(old.speeches[k])]
  <2>3. g \in [Key -> SUBSET Content]
    BY <1>1, <1>2, <2>2
  <2>4. d = [old EXCEPT !.models = g]
    BY <2>1 DEF WithModel
  <2> HIDE DEF g
  <2>5. d \in Database /\ d.speeches = old.speeches
    BY <2>3, <2>4 DEF Database
  <2> QED  BY <2>5 DEF SpeechesComeFrom
<1>9. CASE q.post \in {"person/find", "model/verify", "model/identify_2"}
  <2>1. d = old
    BY <1>9 DEF Effects
  <2> QED  BY <2>1 DEF SpeechesComeFrom
<1> QED
  BY <1>2, <1>3, <1>4, <1>5, <1>6, <1>7, <1>8, <1>9 DEF PostKinds

(* Whatever the service answers: its database is well formed, no speech    *)
(* came to a person but by an upload for that person, and the code is one  *)
(* of the table.                                                           *)
LEMMA AnswersAreSound ==
  ASSUME NEW old \in Database, NEW q \in Request,
         NEW a \in Answers(old, q)
  PROVE  /\ a.db \in Database
         /\ SpeechesComeFrom(a.db, old, q)
         /\ a.code \in ServiceCodes \cup {XVPR_CODE_SUCCESS}
<1>1. SpeechesComeFrom(old, old, q)
  BY DEF SpeechesComeFrom
<1>2. CASE \E c \in Refusals(old, q) \cup Outages : a = Refused(old, c)
  <2>1. PICK c \in Refusals(old, q) \cup Outages : a = Refused(old, c)
    BY <1>2
  <2>2. c \in ServiceCodes
    <3>1. Refusals(old, q) \subseteq ServiceCodes
      BY Zenon DEF Refusals
    <3>2. Outages \subseteq ServiceCodes
      BY ServerAssumption DEF ServiceCodes
    <3> QED  BY <3>1, <3>2
  <2> QED  BY <1>1, <2>1, <2>2 DEF Refused
<1>3. CASE \E d \in Effects(old, q), f \in Findings(old, q) : a = Done(old, d, f)
  <2>1. PICK d \in Effects(old, q), f \in Findings(old, q) : a = Done(old, d, f)
    BY <1>3
  <2> QED  BY <2>1, EffectsAreSound DEF Done
<1>4. CASE a = Done(old, old, [persons |-> 0])
  BY <1>1, <1>4 DEF Done
<1> QED  BY <1>2, <1>3, <1>4 DEF Answers

-----------------------------------------------------------------------------
(***************************************************************************)
(* Uploads arrive as they were given, whatever happens to requests and     *)
(* replies, as long as the threads have files of their own (OwnFiles) and  *)
(* writing them does not fail.                                             *)
(***************************************************************************)

(* Every function makes one post or two, and only one-post functions       *)
(* upload a file.                                                          *)
LEMMA PostsFacts ==
  ASSUME NEW op \in API
  PROVE  /\ Len(Posts(op)) \in {1, 2}
         /\ \A i \in 1 .. Len(Posts(op)) :
              /\ Posts(op)[i] \in PostKinds
              /\ Posts(op)[i] \in FilePosts <=> TakesSpeech(op)
              /\ Posts(op)[i] = "speech/add" => op = "add_speech"
<1> USE DEF Posts, PostKinds, FilePosts, TakesSpeech
<1>1. CASE op = "create_person"    BY <1>1
<1>2. CASE op = "remove_person"    BY <1>2
<1>3. CASE op = "get_info"         BY <1>3
<1>4. CASE op = "add_speech"       BY <1>4
<1>5. CASE op = "remove_speech"    BY <1>5
<1>6. CASE op = "reserve_speeches" BY <1>6
<1>7. CASE op = "register_person"  BY <1>7
<1>8. CASE op = "update_person"    BY <1>8
<1>9. CASE op = "verify_person"    BY <1>9
<1>10. CASE op = "identify_person" BY <1>10
<1> QED
  BY <1>1, <1>2, <1>3, <1>4, <1>5, <1>6, <1>7, <1>8, <1>9, <1>10 DEF API

(* The arguments a thread calls a function with: its handle and name are   *)
(* those of a person it serves.                                            *)
LEMMA CallsFacts ==
  ASSUME NEW t \in Thread, NEW c \in Calls(t)
  PROVE  /\ c \in Call
         /\ c.op \in API \cap Ops
         /\ c.handle \in Group
         /\ c.name \in Name
         /\ <<c.handle, c.name>> \in Serves[t]
         /\ <<c.handle, c.name>> \in Key
         /\ c.speech \in Recording \cup {Empty}
         /\ c.speech \in Content
         /\ TakesSpeech(c.op) => c.speech \in Recording
<1>1. /\ c \in Call /\ c.op \in Ops /\ c.speech \in Streams(c.op)
      /\ \E k \in Serves[t] : c.handle = k[1] /\ c.name = k[2]
  BY DEF Calls, ClientInit
<1>2. c.op \in API /\ c.handle \in Group /\ c.name \in Name
      /\ c.speech \in Recording \cup {Empty}
  BY <1>1 DEF Call
<1>3. PICK k \in Serves[t] : c.handle = k[1] /\ c.name = k[2]
  BY <1>1
<1>4. k \in Group \X Name
  BY <1>3, ApiAssumption DEF Key
<1>5. k = <<k[1], k[2]>>
  BY <1>4
<1> QED  BY <1>1, <1>2, <1>3, <1>4, <1>5 DEF Key, Content, Streams

(* The temporary file of a call that takes a stream has a path of the      *)
(* model.                                                                  *)
LEMMA PathIsPath ==
  ASSUME NEW t \in Thread, NEW c \in Calls(t), NEW s \in Seconds,
         TakesSpeech(c.op)
  PROVE  Path(c, s) \in Paths
<1>1. c.name \in Name /\ c.handle \in Group
  BY CallsFacts
<1>2. CASE c.op = "add_speech"
  BY <1>1, <1>2 DEF Path, Paths
<1>3. CASE c.op = "verify_person"
  BY <1>1, <1>3 DEF Path, Paths
<1>4. CASE c.op = "identify_person"
  BY <1>1, <1>4 DEF Path, Paths
<1> QED  BY <1>2, <1>3, <1>4 DEF TakesSpeech

(* Files of different threads have different names, whenever they were     *)
(* opened.                                                                 *)
LEMMA PathsDiffer ==
  ASSUME OwnFiles,
         NEW t \in Thread, NEW u \in Thread, t # u,
         NEW c \in Calls(t), NEW d \in Calls(u),
         TakesSpeech(c.op), TakesSpeech(d.op),
         NEW s \in Seconds, NEW r \in Seconds
  PROVE  Path(c, s) # Path(d, r)
<1>1. /\ <<c.handle, c.name>> \in Serves[t] /\ c.op \in Ops
      /\ <<d.handle, d.name>> \in Serves[u] /\ d.op \in Ops
  BY CallsFacts
<1> DEFINE k == <<c.handle, c.name>>
           l == <<d.handle, d.name>>
<1>2. /\ {"add_speech", "verify_person"} \cap Ops # {} => k[2] # l[2]
      /\ "identify_person" \in Ops => k[1] # l[1]
  BY <1>1 DEF OwnFiles
<1>3. CASE c.op = "identify_person"
  <2>1. c.handle # d.handle
    BY <1>1, <1>2, <1>3
  <2>2. Path(c, s) = <<"identify", c.handle, s>>
    BY <1>3 DEF Path
  <2>3. Path(d, r) \in {<<"register", d.name, r>>, <<"verify", d.name, r>>,
                        <<"identify", d.handle, r>>}
    BY DEF Path, TakesSpeech
  <2> QED  BY <2>1, <2>2, <2>3
<1>4. CASE c.op \in {"add_speech", "verify_person"}
  <2>1. c.name # d.name
    BY <1>1, <1>2, <1>4
  <2>2. Path(c, s) \in {<<"register", c.name, s>>, <<"verify", c.name, s>>}
    BY <1>4 DEF Path
  <2>3. Path(d, r) \in {<<"register", d.name, r>>, <<"verify", d.name, r>>,
                        <<"identify", d.handle, r>>}
    BY DEF Path, TakesSpeech
  <2> QED  BY <2>1, <2>2, <2>3
<1> QED  BY <1>3, <1>4 DEF TakesSpeech

-----------------------------------------------------------------------------
(* A thread that a step leaves alone keeps its invariant, if the step does *)
(* not write its file.                                                     *)
LEMMA OthersKeep ==
  ASSUME NEW u \in Thread, ThreadInv(u),
         pc'[u] = pc[u], call'[u] = call[u], step'[u] = step[u],
         path'[u] = path[u], wire'[u] = wire[u],
         given \subseteq given',
         pc[u] \in {"fill", "perform"} /\ Post(u) \in FilePosts
           => files'[path[u]] = files[path[u]]
  PROVE  ThreadInv(u)'
<1> USE DEF ThreadInv
<1>1. Post(u)' = Post(u)
  BY DEF Post
<1>2. CallInv(u)'
  BY DEF CallInv, Busy
<1>3. OwnPath(u)' <=> OwnPath(u)
  BY DEF OwnPath
<1>4. FileInv(u)'
  BY <1>1, <1>3 DEF FileInv
<1>5. RequestInv(u)'
  BY DEF RequestInv
<1> QED  BY <1>2, <1>4, <1>5

(* Two threads at work on their files are not at work on the same one.     *)
LEMMA FilesDiffer ==
  ASSUME OwnFiles, NEW t \in Thread, NEW u \in Thread, t # u,
         call[t] \in Calls(t), TakesSpeech(call[t].op), NEW p,
         \E s \in Seconds : p = Path(call[t], s),
         ThreadInv(u), pc[u] \in {"fill", "perform"}, Post(u) \in FilePosts
  PROVE  path[u] # p
<1>1. /\ call[u] \in Calls(u)
      /\ step[u] \in 1 .. Len(Posts(call[u].op))
      /\ OwnPath(u)
  BY DEF ThreadInv, CallInv, FileInv, Busy
<1>2. TakesSpeech(call[u].op)
  <2>1. call[u].op \in API
    BY <1>1, CallsFacts
  <2> QED  BY <1>1, <2>1, PostsFacts DEF Post
<1>3. PICK s \in Seconds : p = Path(call[t], s)
  OBVIOUS
<1>4. PICK r \in Seconds : path[u] = Path(call[u], r)
  BY <1>1 DEF OwnPath
<1> QED  BY <1>1, <1>2, <1>3, <1>4, PathsDiffer

(* What the invariant says of a thread in a call.                          *)
LEMMA BusyFacts ==
  ASSUME TypeOK, NEW t \in Thread, ThreadInv(t), Busy(t)
  PROVE  /\ call[t] \in Calls(t)
         /\ call[t].op \in API
         /\ step[t] \in 1 .. Len(Posts(call[t].op))
         /\ Post(t) \in PostKinds
         /\ Post(t) \in FilePosts <=> TakesSpeech(call[t].op)
         /\ Post(t) = "speech/add" => call[t].op = "add_speech"
         /\ <<call[t].handle, call[t].name>> \in Key
         /\ call[t].speech \in Content
         /\ TakesSpeech(call[t].op) => call[t].speech \in Recording
         /\ RequestOf(call[t], step[t], call[t].speech) \in Request
<1>1. /\ call[t] \in Calls(t)
      /\ step[t] \in 1 .. Len(Posts(call[t].op))
  BY DEF ThreadInv, CallInv
<1>2. /\ call[t].op \in API
      /\ call[t].handle \in Group
      /\ call[t].name \in Name
      /\ <<call[t].handle, call[t].name>> \in Key
      /\ call[t].speech \in Content
      /\ TakesSpeech(call[t].op) => call[t].speech \in Recording
  BY <1>1, CallsFacts
<1>3. /\ Post(t) \in PostKinds
      /\ Post(t) \in FilePosts <=> TakesSpeech(call[t].op)
      /\ Post(t) = "speech/add" => call[t].op = "add_speech"
  BY <1>1, <1>2, PostsFacts DEF Post
<1>4. RequestOf(call[t], step[t], call[t].speech) \in Request
  BY <1>2, <1>3 DEF RequestOf, Request, Post
<1> QED  BY <1>1, <1>2, <1>3, <1>4

(* What the service does about a request of a call keeps the invariant's   *)
(* parts about it.                                                         *)
LEMMA ServedIsGiven ==
  ASSUME db \in Database, EnrolledAsGiven,
         NEW q \in Request, NEW a \in Answers(db, q),
         q.post = "speech/add" => <<KeyOf(q), q.file>> \in given,
         db' = a.db, given' = given
  PROVE  db' \in Database /\ EnrolledAsGiven'
<1>1. a.db \in Database /\ SpeechesComeFrom(a.db, db, q)
  BY AnswersAreSound
<1>2. ASSUME NEW k \in Key, NEW i \in 1 .. Len(a.db.speeches[k])
      PROVE  <<k, a.db.speeches[k][i]>> \in given
  <2>1. CASE \E j \in 1 .. Len(db.speeches[k]) :
               a.db.speeches[k][i] = db.speeches[k][j]
    BY <2>1 DEF EnrolledAsGiven
  <2>2. CASE /\ q.post = "speech/add"
             /\ k = KeyOf(q)
             /\ a.db.speeches[k][i] = q.file
    BY <2>2
  <2> QED  BY <1>1, <2>1, <2>2 DEF SpeechesComeFrom
<1> QED  BY <1>1, <1>2 DEF EnrolledAsGiven

-----------------------------------------------------------------------------
(* The initial states satisfy the invariant.                               *)
LEMMA InitUploadInv == Init => UploadInv
<1> SUFFICES ASSUME Init PROVE UploadInv
  OBVIOUS
<1>1. db \in Database
  <2> DEFINE none == << >>
  <2>1. none \in Seq(Content)
    OBVIOUS
  <2>2. db = [persons  |-> {}, speeches |-> [k \in Key |-> none],
              models   |-> [k \in Key |-> {}]]
    BY DEF Init, EmptyDatabase
  <2> HIDE DEF none
  <2> QED  BY <2>1, <2>2 DEF Database
<1>2. \A t \in Thread : WireOK(wire[t])
  BY DEF Init, WireOK, Closed, TextKinds
<1>3. TypeOK
  <2>1. now \in Seconds /\ made \in [Thread -> 0 .. MaxCalls]
    BY ClientAssumption DEF Init, Seconds
  <2> QED  BY <1>1, <1>2, <2>1 DEF Init, TypeOK, Steps, ReturnCodes
<1>4. \A t \in Thread : ThreadInv(t)
  BY DEF Init, ThreadInv, CallInv, FileInv, RequestInv, Busy
<1>5. LateInv
  BY DEF Init, LateInv
<1>6. EnrolledAsGiven
  <2>1. \A k \in Key : db.speeches[k] = << >>
    BY DEF Init, EmptyDatabase
  <2>2. \A k \in Key : Len(db.speeches[k]) = 0
    BY <2>1
  <2> QED  BY <2>2 DEF EnrolledAsGiven
<1> QED  BY <1>3, <1>4, <1>5, <1>6 DEF UploadInv

(* A return ends a call: nothing is left to hold for its thread.           *)
LEMMA ReturnKeeps ==
  ASSUME TypeOK, \A u \in Thread : ThreadInv(u),
         NEW t \in Thread, NEW code \in ReturnCodes, NEW o,
         Return(t, code, o),
         UNCHANGED <<now, files, db, given>>
  PROVE  /\ late' \subseteq Request => TypeOK'
         /\ \A u \in Thread : ThreadInv(u)'
<1>1. /\ pc' = [pc EXCEPT ![t] = "idle"]
      /\ ret' = [ret EXCEPT ![t] = code]
      /\ wire' = [wire EXCEPT ![t] = Closed]
      /\ UNCHANGED <<call, step, path, made>>
  BY DEF Return
<1>2. pc' \in [Thread -> Steps] /\ ret' \in [Thread -> ReturnCodes]
  BY <1>1 DEF TypeOK, Steps
<1>3. /\ wire' = [u \in Thread |-> wire'[u]]
      /\ \A u \in Thread : wire'[u] = IF u = t THEN Closed ELSE wire[u]
  BY <1>1 DEF TypeOK
<1>4. WireOK(Closed)
  BY DEF WireOK, Closed, TextKinds
<1>5. \A u \in Thread : WireOK(wire'[u])
  BY <1>3, <1>4 DEF TypeOK
<1>6. late' \subseteq Request => TypeOK'
  BY <1>1, <1>2, <1>3, <1>5 DEF TypeOK
<1>7. ThreadInv(t)'
  BY <1>1 DEF TypeOK, ThreadInv, CallInv, FileInv, RequestInv, Busy
<1>8. ASSUME NEW u \in Thread, u # t
      PROVE  ThreadInv(u)'
  BY <1>1, <1>3, <1>8, OthersKeep DEF TypeOK
<1> QED  BY <1>6, <1>7, <1>8

(* One step of the system keeps the invariant: one case per action.        *)
LEMMA StepUploadInv ==
  ASSUME OwnFiles, WriteFaults = {}
  PROVE  UploadInv /\ [Next]_vars => UploadInv'
<1> SUFFICES ASSUME UploadInv, [Next]_vars PROVE UploadInv'
  OBVIOUS
<1> USE DEF UploadInv
<1>1. ASSUME NEW t \in Thread, Invoke(t)
      PROVE  UploadInv'
  <2>1. PICK c \in Calls(t) :
          /\ call' = [call EXCEPT ![t] = c]
          /\ given' = IF c.op = "add_speech"
                      THEN given \cup {<<<<c.handle, c.name>>, c.speech>>}
                      ELSE given
    BY <1>1 DEF Invoke
  <2>2. /\ pc[t] = "idle"
        /\ made[t] < MaxCalls
        /\ pc' = [pc EXCEPT ![t] = "enter"]
        /\ step' = [step EXCEPT ![t] = 1]
        /\ path' = [path EXCEPT ![t] = NoPath]
        /\ ret' = [ret EXCEPT ![t] = NoCode]
        /\ made' = [made EXCEPT ![t] = @ + 1]
        /\ UNCHANGED <<wire, now, files, db, late>>
    BY <1>1 DEF Invoke
  <2>3. /\ c \in Call
        /\ c.op \in API
        /\ <<c.handle, c.name>> \in Key
        /\ c.speech \in Content
    BY CallsFacts
  <2>4. given \subseteq given' /\ given' \subseteq Key \X Content
    BY <2>1, <2>3 DEF TypeOK
  <2>5. TypeOK'
    <3>1. made' \in [Thread -> 0 .. MaxCalls]
      BY <2>2, ClientAssumption DEF TypeOK
    <3>2. call' \in [Thread -> Call \cup {NoCall}]
      BY <2>1, <2>3 DEF TypeOK
    <3>3. pc' \in [Thread -> Steps]
      BY <2>2 DEF TypeOK, Steps
    <3>4. step' \in [Thread -> {1, 2}] /\ path' \in [Thread -> Paths \cup {NoPath}]
      BY <2>2 DEF TypeOK
    <3>5. ret' \in [Thread -> ReturnCodes]
      BY <2>2 DEF TypeOK, ReturnCodes
    <3> QED  BY <2>2, <2>4, <3>1, <3>2, <3>3, <3>4, <3>5 DEF TypeOK
  <2>6. ThreadInv(t)'
    <3>1. /\ pc'[t] = "enter" /\ step'[t] = 1 /\ call'[t] = c
      BY <2>1, <2>2 DEF TypeOK
    <3>2. Len(Posts(c.op)) \in {1, 2}
      BY <2>3, PostsFacts
    <3>4. 1 \in 1 .. Len(Posts(c.op))
      BY <3>2
    <3>3. c.op = "add_speech" => <<<<c.handle, c.name>>, c.speech>> \in given'
      BY <2>1
    <3> QED  BY <3>1, <3>3, <3>4 DEF ThreadInv, CallInv, FileInv, RequestInv
  <2>7. ASSUME NEW u \in Thread, u # t
        PROVE  ThreadInv(u)'
    BY <2>1, <2>2, <2>4, <2>7, OthersKeep DEF TypeOK
  <2>8. LateInv'
    BY <2>2, <2>4 DEF LateInv
  <2>9. EnrolledAsGiven'
    BY <2>2, <2>4 DEF EnrolledAsGiven
  <2> QED  BY <2>5, <2>6, <2>7, <2>8, <2>9
<1>2. ASSUME NEW t \in Thread, Allocate(t)
      PROVE  UploadInv'
  <2>1. /\ pc[t] = "enter"
        /\ pc' = [pc EXCEPT ![t] = IF Post(t) \in FilePosts THEN "open"
                                                            ELSE "perform"]
        /\ UNCHANGED <<call, step, path, wire, ret, made, now, files, db,
                       late, given>>
    BY <1>2 DEF Allocate, shared
  <2>2. TypeOK'
    BY <2>1 DEF TypeOK, Steps
  <2>3. ThreadInv(t)'
    <3>1. CallInv(t)'
      BY <2>1 DEF ThreadInv, CallInv, Busy, TypeOK
    <3>2. FileInv(t)' /\ RequestInv(t)'
      BY <2>1 DEF FileInv, RequestInv, Post, TypeOK
    <3> QED  BY <3>1, <3>2 DEF ThreadInv
  <2>4. ASSUME NEW u \in Thread, u # t
        PROVE  ThreadInv(u)'
    BY <2>1, <2>4, OthersKeep DEF TypeOK
  <2> QED  BY <2>1, <2>2, <2>3, <2>4 DEF LateInv, EnrolledAsGiven
<1>3. ASSUME NEW t \in Thread, AllocateFails(t) \/ ConnectFails(t)
      PROVE  UploadInv'
  <2>1. UNCHANGED <<now, files, db, late, given>>
    BY <1>3 DEF AllocateFails, ConnectFails, shared
  <2>2. PICK code \in {XVPR_CODE_FAIL, XVPR_CODE_CONNECT_ERR} :
          Return(t, code, out[t])
    BY <1>3 DEF AllocateFails, ConnectFails
  <2>3. code \in ReturnCodes
    BY DEF ReturnCodes
  <2>4. TypeOK' /\ \A u \in Thread : ThreadInv(u)'
    BY <2>1, <2>2, <2>3, ReturnKeeps DEF TypeOK
  <2> QED  BY <2>1, <2>4 DEF LateInv, EnrolledAsGiven
<1>4. ASSUME NEW t \in Thread, OpenTemp(t)
      PROVE  UploadInv'
  <2> DEFINE p == Path(call[t], now)
  <2>1. /\ pc[t] = "open"
        /\ path' = [path EXCEPT ![t] = p]
        /\ files' = [files EXCEPT ![p] = Empty]
        /\ pc' = [pc EXCEPT ![t] = "fill"]
        /\ UNCHANGED <<call, step, wire, ret, made, now, db, late, given>>
    BY <1>4 DEF OpenTemp
  <2>2. /\ call[t] \in Calls(t) /\ Post(t) \in FilePosts
        /\ TakesSpeech(call[t].op)
    BY <2>1, BusyFacts DEF Busy, ThreadInv, FileInv
  <2>3. now \in Seconds /\ p \in Paths
    BY <2>2, PathIsPath DEF TypeOK
  <2>4. TypeOK'
    <3>1. files' \in [Paths -> Content \cup {Absent}]
      BY <2>1, <2>3 DEF TypeOK, Content
    <3>2. path' \in [Thread -> Paths \cup {NoPath}]
      BY <2>1, <2>3 DEF TypeOK
    <3>3. pc' \in [Thread -> Steps]
      BY <2>1 DEF TypeOK, Steps
    <3> QED  BY <2>1, <3>1, <3>2, <3>3 DEF TypeOK
  <2>5. ThreadInv(t)'
    <3>1. CallInv(t)'
      BY <2>1 DEF ThreadInv, CallInv, Busy, TypeOK
    <3>2. pc'[t] = "fill" /\ path'[t] = p /\ files'[path'[t]] = Empty
      BY <2>1, <2>3 DEF TypeOK
    <3>3. OwnPath(t)'
      BY <2>1, <2>3, <3>2 DEF OwnPath
    <3>4. Post(t)' = Post(t)
      BY <2>1 DEF Post
    <3>5. FileInv(t)' /\ RequestInv(t)'
      BY <2>2, <3>2, <3>3, <3>4 DEF FileInv, RequestInv
    <3> QED  BY <3>1, <3>5 DEF ThreadInv
  <2>6. ASSUME NEW u \in Thread, u # t
        PROVE  ThreadInv(u)'
    <3>1. pc[u] \in {"fill", "perform"} /\ Post(u) \in FilePosts
            => path[u] # p
      BY <2>2, <2>3, <2>6, FilesDiffer
    <3>2. pc[u] \in {"fill", "perform"} /\ Post(u) \in FilePosts
            => files'[path[u]] = files[path[u]]
      BY <2>1, <3>1 DEF TypeOK
    <3> QED  BY <2>1, <2>6, <3>2, OthersKeep DEF TypeOK
  <2> QED  BY <2>1, <2>4, <2>5, <2>6 DEF LateInv, EnrolledAsGiven
<1>5. ASSUME NEW t \in Thread, OpenTempFails(t)
      PROVE  UploadInv'
  BY <1>5 DEF OpenTempFails
<1>6. ASSUME NEW t \in Thread, FillTemp(t)
      PROVE  UploadInv'
  <2>1. /\ pc[t] = "fill"
        /\ pc' = [pc EXCEPT ![t] = "perform"]
        /\ UNCHANGED <<call, step, path, wire, ret, made, now, db, late, given>>
    BY <1>6 DEF FillTemp
  <2>2. /\ call[t] \in Calls(t) /\ Post(t) \in FilePosts
        /\ TakesSpeech(call[t].op) /\ call[t].speech \in Content
    BY <2>1, BusyFacts DEF Busy, ThreadInv, FileInv
  <2>3. OwnPath(t) /\ files[path[t]] = Empty
    BY <2>1 DEF ThreadInv, FileInv
  <2>4. path[t] \in Paths
    BY <2>2, <2>3, PathIsPath DEF OwnPath
  <2>5. files' = [files EXCEPT ![path[t]] = call[t].speech]
    BY <1>6, <2>3 DEF FillTemp, Written
  <2>6. TypeOK'
    <3>1. files' \in [Paths -> Content \cup {Absent}]
      BY <2>2, <2>4, <2>5 DEF TypeOK
    <3>2. pc' \in [Thread -> Steps]
      BY <2>1 DEF TypeOK, Steps
    <3> QED  BY <2>1, <3>1, <3>2 DEF TypeOK
  <2>7. ThreadInv(t)'
    <3>1. CallInv(t)'
      BY <2>1 DEF ThreadInv, CallInv, Busy, TypeOK
    <3>2. pc'[t] = "perform" /\ files'[path'[t]] = call'[t].speech
      BY <2>1, <2>4, <2>5 DEF TypeOK
    <3>3. OwnPath(t)'
      BY <2>1, <2>3 DEF OwnPath
    <3>4. FileInv(t)' /\ RequestInv(t)'
      BY <3>2, <3>3 DEF FileInv, RequestInv
    <3> QED  BY <3>1, <3>4 DEF ThreadInv
  <2>8. ASSUME NEW u \in Thread, u # t
        PROVE  ThreadInv(u)'
    <3>1. pc[u] \in {"fill", "perform"} /\ Post(u) \in FilePosts
            => path[u] # path[t]
      BY <2>2, <2>3, <2>8, FilesDiffer DEF OwnPath
    <3>2. pc[u] \in {"fill", "perform"} /\ Post(u) \in FilePosts
            => files'[path[u]] = files[path[u]]
      BY <2>5, <3>1 DEF TypeOK
    <3> QED  BY <2>1, <2>8, <3>2, OthersKeep DEF TypeOK
  <2> QED  BY <2>1, <2>6, <2>7, <2>8 DEF LateInv, EnrolledAsGiven
<1>7. ASSUME NEW t \in Thread, Send(t)
      PROVE  UploadInv'
  <2> DEFINE q == RequestOf(call[t], step[t], call[t].speech)
  <2>1. /\ pc[t] = "perform"
        /\ pc' = [pc EXCEPT ![t] = "wait"]
        /\ UNCHANGED <<call, step, path, ret, made, now, files, db, late, given>>
    BY <1>7 DEF Send, shared
  <2>2. q \in Request /\ call[t] \in Calls(t)
    BY <2>1, BusyFacts DEF Busy
  <2>3. wire' = [wire EXCEPT ![t] = Inflight(q)]
    BY <1>7, <2>1 DEF Send, ThreadInv, FileInv
  <2>4. Inflight(q).state = "request" /\ Inflight(q).q = q
    BY DEF Inflight
  <2> HIDE DEF q
  <2>5. WireOK(Inflight(q))
    BY <2>2, <2>4 DEF WireOK, TextKinds
  <2>6. TypeOK'
    <3>1. pc' \in [Thread -> Steps]
      BY <2>1 DEF TypeOK, Steps
    <3>2. wire' = [u \in Thread |-> wire'[u]]
      BY <2>3 DEF TypeOK
    <3>3. \A u \in Thread : WireOK(wire'[u])
      BY <2>3, <2>5 DEF TypeOK
    <3> QED  BY <2>1, <3>1, <3>2, <3>3 DEF TypeOK
  <2>7. ThreadInv(t)'
    <3>1. CallInv(t)'
      BY <2>1 DEF ThreadInv, CallInv, Busy, TypeOK
    <3>2. pc'[t] = "wait" /\ wire'[t] = Inflight(q)
      BY <2>1, <2>3 DEF TypeOK
    <3>3. FileInv(t)'
      BY <3>2 DEF FileInv
    <3>4. RequestInv(t)'
      BY <2>1, <2>4, <3>2 DEF RequestInv, q
    <3> QED  BY <3>1, <3>3, <3>4 DEF ThreadInv
  <2>8. ASSUME NEW u \in Thread, u # t
        PROVE  ThreadInv(u)'
    BY <2>1, <2>3, <2>8, OthersKeep DEF TypeOK
  <2> QED  BY <2>1, <2>6, <2>7, <2>8 DEF LateInv, EnrolledAsGiven
<1>8. ASSUME NEW t \in Thread, Serve(t)
      PROVE  UploadInv'
  <2>1. PICK a \in Answers(db, wire[t].q) :
          db' = a.db /\ wire' = [wire EXCEPT ![t] = Answered(a)]
    BY <1>8 DEF Serve
  <2>2. /\ pc[t] = "wait"
        /\ wire[t].state = "request"
        /\ UNCHANGED <<pc, call, step, path, ret, made, now, files, late, given>>
    BY <1>8 DEF Serve
  <2> DEFINE q == wire[t].q
  <2>3. q \in Request /\ db \in Database
    BY <2>2 DEF TypeOK, WireOK
  <2>4. q.post = "speech/add" => <<KeyOf(q), q.file>> \in given
    <3>1. q = RequestOf(call[t], step[t], call[t].speech)
      BY <2>2 DEF ThreadInv, RequestInv
    <3>2. /\ q.post = Post(t)
          /\ KeyOf(q) = <<call[t].handle, call[t].name>>
          /\ q.file = call[t].speech
      BY <3>1 DEF RequestOf, KeyOf, Post
    <3>3. Post(t) = "speech/add" => call[t].op = "add_speech"
      BY <2>2, BusyFacts DEF Busy
    <3>4. call[t].op = "add_speech"
            => <<<<call[t].handle, call[t].name>>, call[t].speech>> \in given
      BY <2>2 DEF ThreadInv, CallInv, Busy
    <3> QED  BY <3>2, <3>3, <3>4
  <2>5. db' \in Database /\ EnrolledAsGiven'
    <3> HIDE DEF q
    <3>1. a \in Answers(db, q)
      BY DEF q
    <3> QED  BY <2>1, <2>2, <2>3, <2>4, <3>1, ServedIsGiven
  <2>6. a.code \in ServiceCodes \cup {XVPR_CODE_SUCCESS}
    BY <2>3, AnswersAreSound
  <2>7. Answered(a).state = "reply" /\ WireOK(Answered(a))
    BY <2>6 DEF WireOK, Answered, TextKinds
  <2>8. TypeOK'
    <3>1. wire' = [u \in Thread |-> wire'[u]]
      BY <2>1 DEF TypeOK
    <3>2. \A u \in Thread : WireOK(wire'[u])
      BY <2>1, <2>7 DEF TypeOK
    <3> QED  BY <2>2, <2>5, <3>1, <3>2 DEF TypeOK
  <2>9. ThreadInv(t)'
    <3>1. CallInv(t)'
      BY <2>2 DEF ThreadInv, CallInv, Busy
    <3>2. pc'[t] = "wait" /\ wire'[t].state = "reply"
      BY <2>1, <2>2, <2>7 DEF TypeOK
    <3> QED  BY <3>1, <3>2 DEF ThreadInv, FileInv, RequestInv
  <2>10. ASSUME NEW u \in Thread, u # t
         PROVE  ThreadInv(u)'
    BY <2>1, <2>2, <2>10, OthersKeep DEF TypeOK
  <2> QED  BY <2>2, <2>5, <2>8, <2>9, <2>10 DEF LateInv
<1>9. ASSUME ServeLate
      PROVE  UploadInv'
  <2>1. PICK q \in late :
          late' = late \ {q} /\ \E a \in Answers(db, q) : db' = a.db
    BY <1>9 DEF ServeLate
  <2>2. PICK a \in Answers(db, q) : db' = a.db
    BY <2>1
  <2>3. UNCHANGED <<pc, call, step, path, wire, ret, made, now, files, given>>
    BY <1>9 DEF ServeLate, local
  <2>4. q \in Request /\ db \in Database
    BY DEF TypeOK
  <2>5. q.post = "speech/add" => <<KeyOf(q), q.file>> \in given
    BY DEF LateInv
  <2>6. db' \in Database /\ EnrolledAsGiven'
    BY <2>2, <2>3, <2>4, <2>5, ServedIsGiven
  <2>7. TypeOK'
    BY <2>1, <2>3, <2>6 DEF TypeOK
  <2>8. ASSUME NEW u \in Thread
        PROVE  ThreadInv(u)'
    BY <2>3, OthersKeep
  <2> QED  BY <2>1, <2>3, <2>6, <2>7, <2>8 DEF LateInv
<1>10. ASSUME NEW t \in Thread, Lose(t)
       PROVE  UploadInv'
  <2>1. /\ pc[t] = "wait"
        /\ Return(t, XVPR_CODE_CONNECT_ERR, out[t])
        /\ UNCHANGED <<now, files, db, given>>
        /\ \/ late' = late
           \/ /\ wire[t].state = "request"
              /\ late' = late \cup {wire[t].q}
    BY <1>10 DEF Lose
  <2>2. late' \subseteq Request
    BY <2>1 DEF TypeOK, WireOK
  <2>3. XVPR_CODE_CONNECT_ERR \in ReturnCodes
    BY DEF ReturnCodes
  <2>4. TypeOK' /\ \A u \in Thread : ThreadInv(u)'
    BY <2>1, <2>2, <2>3, ReturnKeeps
  <2>5. LateInv'
    <3> DEFINE q == wire[t].q
    <3>1. CASE late' = late
      BY <2>1, <3>1 DEF LateInv
    <3>2. CASE wire[t].state = "request" /\ late' = late \cup {q}
      <4>1. q = RequestOf(call[t], step[t], call[t].speech)
        BY <2>1, <3>2 DEF ThreadInv, RequestInv
      <4>2. /\ q.post = Post(t)
            /\ KeyOf(q) = <<call[t].handle, call[t].name>>
            /\ q.file = call[t].speech
        BY <4>1 DEF RequestOf, KeyOf, Post
      <4>3. Post(t) = "speech/add" => call[t].op = "add_speech"
        BY <2>1, BusyFacts DEF Busy
      <4>4. call[t].op = "add_speech"
              => <<<<call[t].handle, call[t].name>>, call[t].speech>> \in given
        BY <2>1 DEF ThreadInv, CallInv, Busy
      <4>5. q.post = "speech/add" => <<KeyOf(q), q.file>> \in given
        BY <4>2, <4>3, <4>4
      <4> HIDE DEF q
      <4> QED  BY <2>1, <3>2, <4>5 DEF LateInv
    <3> QED  BY <2>1, <3>1, <3>2
  <2> QED  BY <2>1, <2>4, <2>5 DEF EnrolledAsGiven
<1>11. ASSUME NEW t \in Thread, Gateway(t) \/ Receive(t)
       PROVE  UploadInv'
  <2>1. /\ pc[t] = "wait"
        /\ pc' = [pc EXCEPT ![t] = "parse"]
        /\ UNCHANGED <<call, step, path, ret, made, now, files, db, late, given>>
    BY <1>11 DEF Gateway, Receive, shared
  <2>2. PICK w : wire' = [wire EXCEPT ![t] = w] /\ WireOK(w)
    <3>1. CASE Gateway(t)
      <4>1. wire' = [wire EXCEPT ![t] = Text("not_object", 0, NotWritten)]
        BY <3>1 DEF Gateway
      <4>2. WireOK(Text("not_object", 0, NotWritten))
        BY DEF WireOK, Text, TextKinds, XVPR_CODE_SUCCESS
      <4> QED  BY <4>1, <4>2
    <3>2. CASE Receive(t)
      <4>1. PICK kind \in TextKinds :
              wire' = [wire EXCEPT ![t] = Text(kind, wire[t].code, wire[t].data)]
        BY <3>2 DEF Receive, Tails, TextKinds
      <4>2. wire[t].code \in ServiceCodes \cup {XVPR_CODE_SUCCESS}
        BY <3>2 DEF Receive, TypeOK, WireOK
      <4>3. WireOK(Text(kind, wire[t].code, wire[t].data))
        BY <4>2 DEF WireOK, Text, TextKinds
      <4> QED  BY <4>1, <4>3
    <3> QED  BY <1>11, <3>1, <3>2
  <2>3. TypeOK'
    <3>1. pc' \in [Thread -> Steps]
      BY <2>1 DEF TypeOK, Steps
    <3>2. wire' = [u \in Thread |-> wire'[u]]
      BY <2>2 DEF TypeOK
    <3>3. \A u \in Thread : WireOK(wire'[u])
      BY <2>2 DEF TypeOK
    <3> QED  BY <2>1, <3>1, <3>2, <3>3 DEF TypeOK
  <2>4. ThreadInv(t)'
    <3>1. CallInv(t)'
      BY <2>1 DEF ThreadInv, CallInv, Busy, TypeOK
    <3>2. pc'[t] = "parse"
      BY <2>1 DEF TypeOK
    <3> QED  BY <3>1, <3>2 DEF ThreadInv, FileInv, RequestInv
  <2>5. ASSUME NEW u \in Thread, u # t
        PROVE  ThreadInv(u)'
    BY <2>1, <2>2, <2>5, OthersKeep DEF TypeOK
  <2> QED  BY <2>1, <2>3, <2>4, <2>5 DEF LateInv, EnrolledAsGiven
<1>12. ASSUME NEW t \in Thread, ParseCrashes(t)
       PROVE  UploadInv'
  <2>1. /\ pc' = [u \in Thread |-> "dead"]
        /\ UNCHANGED <<call, step, path, wire, ret, made, now, files, db,
                       late, given>>
    BY <1>12 DEF ParseCrashes, shared
  <2>2. TypeOK'
    BY <2>1 DEF TypeOK, Steps
  <2>3. \A u \in Thread : ThreadInv(u)'
    BY <2>1 DEF ThreadInv, CallInv, FileInv, RequestInv, Busy
  <2> QED  BY <2>1, <2>2, <2>3 DEF LateInv, EnrolledAsGiven
<1>13. ASSUME NEW t \in Thread, ParseAndGoOn(t)
       PROVE  UploadInv'
  <2>1. /\ pc[t] = "parse"
        /\ step[t] # Len(Posts(call[t].op))
        /\ step' = [step EXCEPT ![t] = @ + 1]
        /\ wire' = [wire EXCEPT ![t] = Closed]
        /\ pc' = [pc EXCEPT ![t] = "enter"]
        /\ UNCHANGED <<call, path, ret, made, now, files, db, late, given>>
    BY <1>13 DEF ParseAndGoOn, IsLastPost, shared
  <2>2. /\ call[t].op \in API
        /\ step[t] \in 1 .. Len(Posts(call[t].op))
    BY <2>1, BusyFacts DEF Busy
  <2>3. Len(Posts(call[t].op)) \in {1, 2}
    BY <2>2, PostsFacts
  <2>4. step[t] + 1 = 2 /\ 2 \in 1 .. Len(Posts(call[t].op))
    <3> DEFINE n == Len(Posts(call[t].op))
               i == step[t]
    <3>1. n \in {1, 2} /\ i \in 1 .. n /\ i # n
      BY <2>1, <2>2, <2>3
    <3> HIDE DEF n, i
    <3>2. i + 1 = 2 /\ 2 \in 1 .. n
      BY <3>1
    <3> QED  BY <3>2 DEF n, i
  <2>5. step' = [step EXCEPT ![t] = 2]
    BY <2>1, <2>4 DEF TypeOK
  <2>6. WireOK(Closed)
    BY DEF WireOK, Closed, TextKinds
  <2>7. TypeOK'
    <3>1. pc' \in [Thread -> Steps] /\ step' \in [Thread -> {1, 2}]
      BY <2>1, <2>5 DEF TypeOK, Steps
    <3>2. wire' = [u \in Thread |-> wire'[u]]
      BY <2>1 DEF TypeOK
    <3>3. \A u \in Thread : WireOK(wire'[u])
      BY <2>1, <2>6 DEF TypeOK
    <3> QED  BY <2>1, <3>1, <3>2, <3>3 DEF TypeOK
  <2>8. ThreadInv(t)'
    <3>1. pc'[t] = "enter" /\ step'[t] = 2 /\ call'[t] = call[t]
      BY <2>1, <2>5 DEF TypeOK
    <3>2. CallInv(t)'
      BY <2>1, <2>4, <3>1 DEF ThreadInv, CallInv, Busy
    <3> QED  BY <3>1, <3>2 DEF ThreadInv, FileInv, RequestInv
  <2>9. ASSUME NEW u \in Thread, u # t
        PROVE  ThreadInv(u)'
    BY <2>1, <2>5, <2>9, OthersKeep DEF TypeOK
  <2> QED  BY <2>1, <2>7, <2>8, <2>9 DEF LateInv, EnrolledAsGiven
<1>14. ASSUME NEW t \in Thread, ParseAndReturn(t)
       PROVE  UploadInv'
  <2>1. pc[t] = "parse" /\ UNCHANGED <<now, files, db, late, given>>
    BY <1>14 DEF ParseAndReturn, shared
  <2>2. ParsedCode(t) \in ReturnCodes /\ XVPR_CODE_SUCCESS \in ReturnCodes
    <3>1. wire[t].state = "whole"
            => wire[t].code \in ServiceCodes \cup {XVPR_CODE_SUCCESS}
      BY DEF TypeOK, WireOK, TextKinds
    <3> QED
      BY <3>1 DEF ParsedCode, ErrorCodeField, ReturnCodes, XVPR_CODE_SUCCESS
  <2>3. PICK code \in ReturnCodes, o \in {Outputs(t), out[t]} :
          Return(t, code, o)
    BY <1>14, <2>2 DEF ParseAndReturn
  <2>4. TypeOK' /\ \A u \in Thread : ThreadInv(u)'
    BY <2>1, <2>3, ReturnKeeps DEF TypeOK
  <2> QED  BY <2>1, <2>4 DEF LateInv, EnrolledAsGiven
<1>15. ASSUME Tick
       PROVE  UploadInv'
  <2>1. /\ now < MaxTime
        /\ now' = now + 1
        /\ UNCHANGED <<pc, call, step, path, wire, ret, made, files, db,
                       late, given>>
    BY <1>15 DEF Tick, local
  <2>2. now' \in Seconds
    BY <2>1, ClientAssumption DEF TypeOK, Seconds
  <2>3. TypeOK'
    BY <2>1, <2>2 DEF TypeOK
  <2>4. ASSUME NEW u \in Thread
        PROVE  ThreadInv(u)'
    BY <2>1, OthersKeep
  <2> QED  BY <2>1, <2>3, <2>4 DEF LateInv, EnrolledAsGiven
<1>16. CASE UNCHANGED vars
  <2>1. UNCHANGED <<pc, call, step, path, wire, ret, made, now, files, db,
                    late, given>>
    BY <1>16 DEF vars
  <2>2. TypeOK'
    BY <2>1 DEF TypeOK
  <2>3. ASSUME NEW u \in Thread
        PROVE  ThreadInv(u)'
    BY <2>1, OthersKeep
  <2> QED  BY <2>1, <2>2, <2>3 DEF LateInv, EnrolledAsGiven
<1>17. CASE \E t \in Thread : Invoke(t) \/ Advance(t) \/ Hear(t)
  BY <1>1, <1>2, <1>3, <1>4, <1>5, <1>6, <1>7, <1>8, <1>10, <1>11, <1>12,
     <1>13, <1>14, <1>17 DEF Advance, Hear
<1> QED  BY <1>9, <1>15, <1>16, <1>17 DEF Next

(* The invariant holds throughout.                                         *)
LEMMA SpecUploadInv ==
  ASSUME OwnFiles, WriteFaults = {}
  PROVE  Spec => []UploadInv
<1>1. Init => UploadInv
  BY InitUploadInv
<1>2. UploadInv /\ [Next]_vars => UploadInv'
  BY StepUploadInv
<1> QED  BY <1>1, <1>2, PTL DEF Spec

-----------------------------------------------------------------------------
(* The variables of the calls, the clock, the files and the service keep   *)
(* their types: in particular no call returns a code that is neither the   *)
(* SDK's nor the service's, and no upload refers to a file that was never  *)
(* written.                                                                *)
THEOREM TypeCorrect ==
  ASSUME OwnFiles, WriteFaults = {}
  PROVE  Spec => []TypeOK
<1>1. UploadInv => TypeOK
  BY DEF UploadInv
<1> QED  BY <1>1, SpecUploadInv, PTL

(* Whatever happens to requests and replies, a speech upload carries the   *)
(* stream that its caller passed: the temporary file behind it is opened,  *)
(* written and read by one thread.                                         *)
THEOREM UploadsAreTheStreams ==
  ASSUME OwnFiles, WriteFaults = {}
  PROVE  Spec => []UploadIsTheStream
<1>1. UploadInv => UploadIsTheStream
  <2> SUFFICES ASSUME UploadInv, NEW t \in Thread,
                      pc[t] = "wait", wire[t].state = "request"
               PROVE  wire[t].q.file = call[t].speech
    BY DEF UploadIsTheStream
  <2>1. wire[t].q = RequestOf(call[t], step[t], call[t].speech)
    BY DEF UploadInv, ThreadInv, RequestInv
  <2> QED  BY <2>1 DEF RequestOf
<1> QED  BY <1>1, SpecUploadInv, PTL

(* No person ever gets a speech that nobody recorded for that person, not  *)
(* even through a request that arrives after its sender has given up.      *)
THEOREM SpeechesAreEnrolledAsGiven ==
  ASSUME OwnFiles, WriteFaults = {}
  PROVE  Spec => []EnrolledAsGiven
<1>1. UploadInv => EnrolledAsGiven
  BY DEF UploadInv
<1> QED  BY <1>1, SpecUploadInv, PTL

-----------------------------------------------------------------------------
(***************************************************************************)
(* Codes mean what they say, whatever happens to files, requests and       *)
(* replies, and whatever the threads share.                                *)
(***************************************************************************)

LastCode(s) == s[Len(s)].code

(* A function makes one post or two, and a find is a call's only post.     *)
LEMMA PostsAre ==
  ASSUME NEW op \in API
  PROVE  /\ Len(Posts(op)) \in {1, 2}
         /\ \A i \in 1 .. Len(Posts(op)) :
              Posts(op)[i] = "person/find" => i = Len(Posts(op))
<1> USE DEF Posts
<1>1. CASE op = "create_person"    BY <1>1
<1>2. CASE op = "remove_person"    BY <1>2
<1>3. CASE op = "get_info"         BY <1>3
<1>4. CASE op = "add_speech"       BY <1>4
<1>5. CASE op = "remove_speech"    BY <1>5
<1>6. CASE op = "reserve_speeches" BY <1>6
<1>7. CASE op = "register_person"  BY <1>7
<1>8. CASE op = "update_person"    BY <1>8
<1>9. CASE op = "verify_person"    BY <1>9
<1>10. CASE op = "identify_person" BY <1>10
<1> QED
  BY <1>1, <1>2, <1>3, <1>4, <1>5, <1>6, <1>7, <1>8, <1>9, <1>10 DEF API

(* The shape of what the proof looks at.                                   *)
Shape ==
  /\ pc \in [Thread -> Steps]
  /\ step \in [Thread -> Nat \ {0}]
  /\ ret = [t \in Thread |-> ret[t]]
  /\ call = [t \in Thread |-> call[t]]
  /\ wire = [t \in Thread |-> wire[t]]
  /\ verdicts = [t \in Thread |-> verdicts[t]]
  /\ \A t \in Thread : IsSequence(verdicts[t])

Answer == {"reply", "whole", "inner"}

(* Every text that a call goes on to read is a reply of the service: the   *)
(* bundled json-c reads no other, or there is none.                        *)
Readable == JsonBuild = "bundled" \/ ReplyFaults = {}

(* What is on the wire of a call, or parsed, is the latest verdict.        *)
ReplyInv(t) ==
  /\ pc[t] = "wait" => wire[t].state \in {"request", "reply"}
  /\ pc[t] = "parse" => wire[t].state \in TextKinds
  /\ pc[t] = "parse" /\ ReplyFaults = {} => wire[t].state = "whole"
  /\ pc[t] \in {"wait", "parse"} /\ wire[t].state \in Answer =>
       /\ verdicts[t] # << >>
       /\ LastCode(verdicts[t]) = wire[t].code
  /\ pc[t] = "parse" /\ wire[t].state = "inner" =>
       wire[t].code = 0 /\ Post(t) = "person/find"

CodeInv(t) ==
  Returned(t) /\ ret[t] \in ServiceCodes =>
    verdicts[t] # << >> /\ LastCode(verdicts[t]) = ret[t]

(* If texts are readable, a call's verdicts are its posts so far.          *)
OrderInv(t) ==
  /\ Busy(t) => call[t].op \in API /\ step[t] \in 1 .. Len(Posts(call[t].op))
  /\ Len(verdicts[t]) \in {step[t] - 1, step[t]}
  /\ pc[t] \in {"enter", "open", "fill", "perform"} =>
       Len(verdicts[t]) = step[t] - 1
  /\ pc[t] = "wait" /\ wire[t].state = "request" =>
       Len(verdicts[t]) = step[t] - 1
  /\ pc[t] \in {"wait", "parse"} /\ wire[t].state \in Answer =>
       Len(verdicts[t]) = step[t]
  /\ \A i \in 1 .. step[t] - 1 : verdicts[t][i].code = 0

DoneInv(t) ==
  Returned(t) /\ ret[t] = XVPR_CODE_SUCCESS =>
    /\ Len(verdicts[t]) = Len(Posts(call[t].op))
    /\ \A i \in 1 .. Len(verdicts[t]) : verdicts[t][i].code = 0

ReplyCodeInv == Shape /\ \A t \in Thread : ReplyInv(t) /\ CodeInv(t)
DoneOrderInv == ReplyCodeInv /\ \A t \in Thread : OrderInv(t) /\ DoneInv(t)

(* The invariants speak of one thread at a time.                           *)
Same(u) == /\ pc'[u] = pc[u] /\ step'[u] = step[u] /\ ret'[u] = ret[u]
           /\ call'[u] = call[u] /\ wire'[u] = wire[u]
           /\ verdicts'[u] = verdicts[u]

(* What a thread's own part of the invariant says does not depend on what   *)
(* the other threads hold.                                                  *)
LEMMA SameKeeps ==
  ASSUME NEW u \in Thread, Same(u)
  PROVE  /\ ReplyInv(u) /\ CodeInv(u) => ReplyInv(u)' /\ CodeInv(u)'
         /\ OrderInv(u) /\ DoneInv(u) => OrderInv(u)' /\ DoneInv(u)'
BY DEF Same, ReplyInv, CodeInv, OrderInv, DoneInv, Returned, LastCode, Post,
   Busy

(* Before the first call there is no reply and no code.                     *)
LEMMA InitReplies == Init => DoneOrderInv
<1> SUFFICES ASSUME Init PROVE DoneOrderInv
  OBVIOUS
<1>1. IsSequence(<< >>)
  <2>1. << >> \in Seq({})
    OBVIOUS
  <2> QED  BY <2>1 DEF IsSequence
<1>2. Shape
  BY <1>1 DEF Init, Shape, Steps
<1>3. ASSUME NEW t \in Thread
      PROVE  ReplyInv(t) /\ CodeInv(t) /\ OrderInv(t) /\ DoneInv(t)
  BY <1>3 DEF Init, ReplyInv, CodeInv, OrderInv, DoneInv, Returned, NoCode,
     XVPR_CODE_SUCCESS, Busy
<1> QED  BY <1>2, <1>3 DEF DoneOrderInv, ReplyCodeInv

(* What a step of a call does to the thread's own part, and that it leaves *)
(* the others' parts alone.                                                *)
Moves(t) ==
  /\ Shape'
  /\ \A u \in Thread \ {t} : Same(u)
  /\ ReplyInv(t)' /\ CodeInv(t)'
  /\ Readable /\ OrderInv(t) /\ DoneInv(t)
       => OrderInv(t)' /\ DoneInv(t)'

(* A return leaves a code and takes the thread out of its call.             *)
LEMMA ReturnMoves ==
  ASSUME Shape, NEW t \in Thread, NEW code, NEW o, Return(t, code, o),
         code \in ServiceCodes =>
           verdicts[t] # << >> /\ LastCode(verdicts[t]) = code,
         Readable /\ OrderInv(t) /\ code = 0 =>
           /\ Len(verdicts[t]) = Len(Posts(call[t].op))
           /\ \A i \in 1 .. Len(verdicts[t]) : verdicts[t][i].code = 0
  PROVE  Moves(t)
<1>1. /\ pc' = [pc EXCEPT ![t] = "idle"]
      /\ ret' = [ret EXCEPT ![t] = code]
      /\ wire' = [wire EXCEPT ![t] = Closed]
      /\ UNCHANGED <<call, step, verdicts>>
  BY DEF Return
<1>2. Shape'
  BY <1>1 DEF Shape, Steps
<1>3. \A u \in Thread \ {t} : Same(u)
  BY <1>1 DEF Shape, Same
<1>4. pc'[t] = "idle" /\ ret'[t] = code
  BY <1>1 DEF Shape
<1>5. ReplyInv(t)' /\ CodeInv(t)'
  BY <1>1, <1>4 DEF ReplyInv, CodeInv, Returned, LastCode
<1>6. Readable /\ OrderInv(t) => OrderInv(t)' /\ DoneInv(t)'
  BY <1>1, <1>4 DEF OrderInv, DoneInv, Returned, XVPR_CODE_SUCCESS, Busy
<1> QED  BY <1>2, <1>3, <1>5, <1>6 DEF Moves
(* The steps of a call.  Those that touch neither the reply nor the        *)
(* verdicts move the thread on before its request is out.                  *)
LEMMA QuietMoves ==
  ASSUME Shape, NEW t \in Thread, ReplyInv(t), CodeInv(t),
         pc[t] \in {"enter", "open", "fill"},
         NEW place \in {"open", "fill", "perform"},
         pc' = [pc EXCEPT ![t] = place],
         UNCHANGED <<call, step, wire, ret, verdicts>>
  PROVE  Moves(t)
<1>1. Shape'
  BY DEF Shape, Steps
<1>2. \A u \in Thread \ {t} : Same(u)
  BY DEF Shape, Same
<1>3. pc'[t] = place
  BY DEF Shape
<1>4. ReplyInv(t)' /\ CodeInv(t)'
  BY <1>3 DEF ReplyInv, CodeInv, Returned
<1>5. OrderInv(t) /\ DoneInv(t) => OrderInv(t)' /\ DoneInv(t)'
  BY <1>3 DEF OrderInv, DoneInv, Returned, Busy
<1> QED  BY <1>1, <1>2, <1>4, <1>5 DEF Moves

(* The request goes out, or something comes in instead of an answer.       *)
LEMMA WireMoves ==
  ASSUME Shape, NEW t \in Thread, ReplyInv(t), CodeInv(t),
         NEW place \in {"wait", "parse"}, NEW w,
         pc' = [pc EXCEPT ![t] = place],
         wire' = [wire EXCEPT ![t] = w],
         \/ pc[t] = "perform" /\ place = "wait" /\ w.state = "request"
         \/ pc[t] = "wait" /\ place = "parse" /\ w.state = "not_object"
                /\ ReplyFaults # {},
         UNCHANGED <<call, step, ret, verdicts>>
  PROVE  Moves(t)
<1>1. Shape'
  BY DEF Shape, Steps
<1>2. \A u \in Thread \ {t} : Same(u)
  BY DEF Shape, Same
<1>3. pc'[t] = place /\ wire'[t] = w
  BY DEF Shape
<1>4. ReplyInv(t)' /\ CodeInv(t)'
  BY <1>3 DEF ReplyInv, CodeInv, Returned, TextKinds, Answer
<1>5. OrderInv(t) /\ DoneInv(t) => OrderInv(t)' /\ DoneInv(t)'
  BY <1>3 DEF OrderInv, DoneInv, Returned, Answer, Busy
<1> QED  BY <1>1, <1>2, <1>4, <1>5 DEF Moves

(* A new call forgets the codes and the verdicts of the last one.           *)
LEMMA InvokeMoves ==
  ASSUME Shape, NEW t \in Thread, Invoke(t)
  PROVE  Moves(t)
<1>1. PICK c \in Calls(t) : call' = [call EXCEPT ![t] = c]
  BY DEF Invoke
<1>2. /\ pc' = [pc EXCEPT ![t] = "enter"]
      /\ step' = [step EXCEPT ![t] = 1]
      /\ ret' = [ret EXCEPT ![t] = NoCode]
      /\ verdicts' = [verdicts EXCEPT ![t] = << >>]
      /\ wire' = wire
  BY DEF Invoke
<1>3. IsSequence(<< >>) /\ Len(<< >>) = 0
  <2>1. << >> \in Seq({})
    OBVIOUS
  <2> QED  BY <2>1 DEF IsSequence
<1>4. Shape'
  <2>1. pc' \in [Thread -> Steps] /\ step' \in [Thread -> Nat \ {0}]
    BY <1>2 DEF Shape, Steps
  <2>2. /\ ret' = [u \in Thread |-> ret'[u]]
        /\ call' = [u \in Thread |-> call'[u]]
        /\ wire' = [u \in Thread |-> wire'[u]]
        /\ verdicts' = [u \in Thread |-> verdicts'[u]]
    BY <1>1, <1>2 DEF Shape
  <2>3. \A u \in Thread : verdicts'[u] = << >> \/ verdicts'[u] = verdicts[u]
    BY <1>2 DEF Shape
  <2>4. \A u \in Thread : IsSequence(verdicts'[u])
    BY <1>3, <2>3 DEF Shape
  <2> QED  BY <2>1, <2>2, <2>4 DEF Shape
<1>5. \A u \in Thread \ {t} : Same(u)
  BY <1>1, <1>2 DEF Shape, Same
<1>6. /\ pc'[t] = "enter" /\ step'[t] = 1 /\ ret'[t] = NoCode
      /\ verdicts'[t] = << >>
  BY <1>2 DEF Shape
<1>7. call'[t].op \in API /\ 1 \in 1 .. Len(Posts(call'[t].op))
  <2>1. call'[t] = c
    BY <1>1 DEF Shape
  <2>2. c.op \in API
    BY DEF Calls, Call
  <2>3. Len(Posts(c.op)) \in {1, 2}
    BY <2>2, PostsAre
  <2>4. \A m \in {1, 2} : 1 \in 1 .. m
    OBVIOUS
  <2> QED  BY <2>1, <2>2, <2>3, <2>4, Zenon
<1>8. ReplyInv(t)' /\ CodeInv(t)' /\ OrderInv(t)' /\ DoneInv(t)'
  BY <1>3, <1>6, <1>7 DEF ReplyInv, CodeInv, OrderInv, DoneInv, Returned
<1> QED  BY <1>4, <1>5, <1>8 DEF Moves

(* The service's answer to a request is the next verdict of its call.       *)
LEMMA ServeMoves ==
  ASSUME Shape, NEW t \in Thread, ReplyInv(t), CodeInv(t), Serve(t)
  PROVE  Moves(t)
<1>1. PICK a \in Answers(db, wire[t].q) :
        /\ verdicts' = [verdicts EXCEPT ![t] = Append(@, Verdict(a))]
        /\ wire' = [wire EXCEPT ![t] = Answered(a)]
  BY DEF Serve
<1>2. /\ pc[t] = "wait" /\ wire[t].state = "request"
      /\ UNCHANGED <<pc, call, step, ret>>
  BY DEF Serve
<1> DEFINE v == Append(verdicts[t], Verdict(a))
<1>3. /\ IsSequence(v)
      /\ Len(verdicts[t]) \in Nat
      /\ Len(v) = Len(verdicts[t]) + 1
      /\ v[Len(v)] = Verdict(a)
      /\ \A i \in 1 .. Len(verdicts[t]) : v[i] = verdicts[t][i]
      /\ v # << >>
  BY AppendFacts DEF Shape
<1>4. verdicts'[t] = v /\ wire'[t] = Answered(a)
  BY <1>1 DEF Shape
<1> HIDE DEF v
<1>5. /\ wire' = [u \in Thread |-> wire'[u]]
      /\ verdicts' = [u \in Thread |-> verdicts'[u]]
      /\ \A u \in Thread \ {t} : wire'[u] = wire[u] /\ verdicts'[u] = verdicts[u]
  BY <1>1 DEF Shape
<1>6. \A u \in Thread : IsSequence(verdicts'[u])
  BY <1>3, <1>4, <1>5 DEF Shape
<1>7. Shape'
  BY <1>2, <1>5, <1>6 DEF Shape
<1>8. \A u \in Thread \ {t} : Same(u)
  BY <1>2, <1>5 DEF Same
<1>9. ReplyInv(t)' /\ CodeInv(t)'
  BY <1>2, <1>3, <1>4 DEF ReplyInv, CodeInv, Returned, LastCode, Answered,
     Verdict, Answer
<1>10. OrderInv(t) /\ DoneInv(t) => OrderInv(t)' /\ DoneInv(t)'
  <2> SUFFICES ASSUME OrderInv(t), DoneInv(t) PROVE OrderInv(t)' /\ DoneInv(t)'
    OBVIOUS
  <2>1. Len(verdicts[t]) = step[t] - 1 /\ step[t] \in Nat \ {0}
    BY <1>2 DEF OrderInv, Shape
  <2>2. Len(v) = step[t] /\ step'[t] = step[t]
    BY <1>2, <1>3, <2>1
  <2>3. \A i \in 1 .. step[t] - 1 : v[i].code = 0
    BY <1>3, <2>1 DEF OrderInv
  <2>4. wire'[t].state = "reply" /\ pc'[t] = "wait"
    BY <1>2, <1>4 DEF Answered
  <2>5. OrderInv(t)'
    BY <1>2, <1>4, <2>2, <2>3, <2>4 DEF OrderInv, Busy
  <2> QED  BY <2>4, <2>5 DEF DoneInv, Returned
<1> QED  BY <1>7, <1>8, <1>9, <1>10 DEF Moves

(* What arrives of a reply is the whole answer, a part of it, or no answer  *)
(* at all.                                                                  *)
LEMMA ReceiveMoves ==
  ASSUME Shape, NEW t \in Thread, ReplyInv(t), CodeInv(t), Receive(t)
  PROVE  Moves(t)
<1>1. PICK kind \in {"whole"} \cup Tails(t) :
        wire' = [wire EXCEPT ![t] = Text(kind, wire[t].code, wire[t].data)]
  BY DEF Receive
<1>2. /\ pc[t] = "wait" /\ wire[t].state = "reply"
      /\ pc' = [pc EXCEPT ![t] = "parse"]
      /\ UNCHANGED <<call, step, ret, verdicts>>
  BY DEF Receive
<1>3. /\ kind \in TextKinds
      /\ ReplyFaults = {} => kind = "whole"
      /\ kind = "inner" => wire[t].code = 0 /\ Post(t) = "person/find"
  BY <1>1 DEF Tails, TextKinds, XVPR_CODE_SUCCESS
<1>4. /\ wire'[t].state = kind /\ wire'[t].code = wire[t].code
      /\ pc'[t] = "parse"
  BY <1>1, <1>2 DEF Shape, Text
<1>5. Shape'
  BY <1>1, <1>2 DEF Shape, Steps
<1>6. \A u \in Thread \ {t} : Same(u)
  BY <1>1, <1>2 DEF Shape, Same
<1>7. ReplyInv(t)' /\ CodeInv(t)'
  BY <1>2, <1>3, <1>4 DEF ReplyInv, CodeInv, Returned, Answer, Post
<1>8. OrderInv(t) /\ DoneInv(t) => OrderInv(t)' /\ DoneInv(t)'
  BY <1>2, <1>3, <1>4 DEF OrderInv, DoneInv, Returned, Answer, Busy
<1> QED  BY <1>5, <1>6, <1>7, <1>8 DEF Moves

(* What the parsed fields say, if reading them does not end the process.   *)
LEMMA ParsedFacts ==
  ASSUME NEW t \in Thread, ReplyInv(t), pc[t] = "parse"
  PROVE  /\ ParsedSuccess(t) => wire[t].state = "whole" /\ wire[t].code = 0
         /\ ParsedCode(t) = wire[t].code \/ ParsedCode(t) = 0
         /\ ParsedCode(t) # 0 => wire[t].state = "whole"
         /\ Readable /\ ~ReadingCrashes(t) =>
              wire[t].state \in {"whole", "inner"}
BY DEF ReplyInv, ParsedSuccess, SuccessField, ParsedCode, ErrorCodeField,
   ReadingCrashes, AccessCrashes, ParsesToObject, Readable, TextKinds

(* A call goes on to its second request after a success of the first.       *)
LEMMA GoOnMoves ==
  ASSUME Shape, NEW t \in Thread, ReplyInv(t), CodeInv(t), ParseAndGoOn(t)
  PROVE  Moves(t)
<1>1. /\ pc[t] = "parse" /\ ~ReadingCrashes(t) /\ GoesOn(t)
      /\ ~IsLastPost(t)
      /\ step' = [step EXCEPT ![t] = @ + 1]
      /\ wire' = [wire EXCEPT ![t] = Closed]
      /\ pc' = [pc EXCEPT ![t] = "enter"]
      /\ UNCHANGED <<call, ret, verdicts>>
  BY DEF ParseAndGoOn
<1>2. Shape'
  BY <1>1 DEF Shape, Steps
<1>3. \A u \in Thread \ {t} : Same(u)
  BY <1>1 DEF Shape, Same
<1>4. pc'[t] = "enter" /\ step'[t] = step[t] + 1 /\ step[t] \in Nat \ {0}
  BY <1>1 DEF Shape
<1>5. ReplyInv(t)' /\ CodeInv(t)'
  BY <1>1, <1>4 DEF ReplyInv, CodeInv, Returned
<1>6. ASSUME Readable, OrderInv(t), DoneInv(t)
      PROVE  OrderInv(t)' /\ DoneInv(t)'
  <2>1. wire[t].state \in {"whole", "inner"} /\ wire[t].code = 0
    BY <1>1, <1>6, ParsedFacts
       DEF GoesOn, ReplyInv, ParsedCode, ErrorCodeField
  <2>2. Len(verdicts[t]) = step[t] /\ verdicts[t][step[t]].code = 0
    BY <1>1, <1>6, <2>1 DEF OrderInv, ReplyInv, Answer, LastCode
  <2>3. \A i \in 1 .. step[t] : verdicts[t][i].code = 0
    BY <1>4, <1>6, <2>2 DEF OrderInv
  <2>4. /\ call[t].op \in API
        /\ step[t] + 1 \in 1 .. Len(Posts(call[t].op))
    <3>1. call[t].op \in API /\ step[t] \in 1 .. Len(Posts(call[t].op))
      BY <1>1, <1>6 DEF OrderInv, Busy
    <3>2. step[t] # Len(Posts(call[t].op))
      BY <1>1 DEF IsLastPost
    <3> QED  BY <3>1, <3>2, PostsAre
  <2>5. OrderInv(t)'
    BY <1>1, <1>4, <2>2, <2>3, <2>4 DEF OrderInv
  <2> QED  BY <1>4, <2>5 DEF DoneInv, Returned
<1> QED  BY <1>2, <1>3, <1>5, <1>6 DEF Moves

(* A call that returns what its last reply says returns the service's code. *)
LEMMA ParseReturnMoves ==
  ASSUME Shape, NEW t \in Thread, ReplyInv(t), CodeInv(t), ParseAndReturn(t)
  PROVE  Moves(t)
<1>1. /\ pc[t] = "parse" /\ ~ReadingCrashes(t)
      /\ IsLastPost(t) \/ ~GoesOn(t)
  BY DEF ParseAndReturn
<1>2. CASE ParsedSuccess(t)
  <2>1. Return(t, XVPR_CODE_SUCCESS, Outputs(t))
    BY <1>2 DEF ParseAndReturn
  <2>2. XVPR_CODE_SUCCESS \notin ServiceCodes
    BY DEF XVPR_CODE_SUCCESS, ServiceCodes, PERSON_EXISTS, PERSON_NOT_EXISTS,
       PERSON_NO_SPEECHES, NOT_TRAINED, IDENTIFY_ERROR, SPEECH_TOO_SHORT,
       SPEECH_EXISTS, SPEECH_NOT_EXISTS
  <2>3. step[t] = Len(Posts(call[t].op)) /\ step[t] \in Nat \ {0}
    BY <1>1, <1>2 DEF IsLastPost, GoesOn, Shape
  <2>4. wire[t].state = "whole" /\ wire[t].code = 0
    BY <1>1, <1>2, ParsedFacts
  <2>5. ASSUME OrderInv(t)
        PROVE  /\ Len(verdicts[t]) = Len(Posts(call[t].op))
               /\ \A i \in 1 .. Len(verdicts[t]) : verdicts[t][i].code = 0
    <3>1. Len(verdicts[t]) = step[t] /\ verdicts[t][step[t]].code = 0
      BY <1>1, <2>4, <2>5 DEF OrderInv, ReplyInv, Answer, LastCode
    <3> QED  BY <2>3, <2>5, <3>1 DEF OrderInv
  <2> QED  BY <2>1, <2>2, <2>5, ReturnMoves
<1>3. CASE ~ParsedSuccess(t)
  <2>1. Return(t, ParsedCode(t), out[t])
    BY <1>3 DEF ParseAndReturn
  <2>2. 0 \notin ServiceCodes
    BY DEF ServiceCodes, PERSON_EXISTS, PERSON_NOT_EXISTS,
       PERSON_NO_SPEECHES, NOT_TRAINED, IDENTIFY_ERROR, SPEECH_TOO_SHORT,
       SPEECH_EXISTS, SPEECH_NOT_EXISTS
  <2>3. ASSUME ParsedCode(t) \in ServiceCodes
        PROVE  verdicts[t] # << >> /\ LastCode(verdicts[t]) = ParsedCode(t)
    BY <1>1, <2>2, <2>3, ParsedFacts DEF ReplyInv, Answer
  <2>4. ASSUME Readable, OrderInv(t), ParsedCode(t) = 0
        PROVE  /\ Len(verdicts[t]) = Len(Posts(call[t].op))
               /\ \A i \in 1 .. Len(verdicts[t]) : verdicts[t][i].code = 0
    <3>1. /\ wire[t].state \in {"whole", "inner"}
          /\ wire[t].code = 0
      BY <1>1, <2>4, ParsedFacts DEF ParsedCode, ErrorCodeField, ReplyInv
    <3>2. wire[t].state = "inner" /\ Post(t) = "person/find"
      BY <1>1, <1>3, <3>1 DEF ParsedSuccess, SuccessField, ReplyInv
    <3>3. step[t] = Len(Posts(call[t].op)) /\ step[t] \in Nat \ {0}
      BY <1>1, <2>4, <3>2, PostsAre DEF OrderInv, Busy, Post, Shape
    <3>4. Len(verdicts[t]) = step[t] /\ verdicts[t][step[t]].code = 0
      BY <1>1, <2>4, <3>1 DEF OrderInv, ReplyInv, Answer, LastCode
    <3> QED  BY <2>4, <3>3, <3>4 DEF OrderInv
  <2> QED  BY <2>1, <2>3, <2>4, ReturnMoves
<1> QED  BY <1>2, <1>3

(* A call that returns for lack of memory or of a connection returns a code *)
(* that is none of the service's.                                           *)
LEMMA ReturnEarlyMoves ==
  ASSUME Shape, NEW t \in Thread,
         NEW code \in {XVPR_CODE_FAIL, XVPR_CODE_CONNECT_ERR},
         Return(t, code, out[t])
  PROVE  Moves(t)
<1>1. code \notin ServiceCodes /\ code # 0
  BY DEF XVPR_CODE_FAIL, XVPR_CODE_CONNECT_ERR, ServiceCodes, PERSON_EXISTS,
     PERSON_NOT_EXISTS, PERSON_NO_SPEECHES, NOT_TRAINED, IDENTIFY_ERROR,
     SPEECH_TOO_SHORT, SPEECH_EXISTS, SPEECH_NOT_EXISTS
<1> QED  BY <1>1, ReturnMoves

(* One thread's step.                                                      *)
LEMMA ThreadMoves ==
  ASSUME Shape, NEW t \in Thread, ReplyInv(t), CodeInv(t),
         Invoke(t) \/ Advance(t) \/ Hear(t), ~ParseCrashes(t)
  PROVE  Moves(t)
<1>1. CASE Invoke(t)
  BY <1>1, InvokeMoves
<1>2. CASE Allocate(t)
  BY <1>2, QuietMoves DEF Allocate
<1>3. CASE AllocateFails(t)
  BY <1>3, ReturnEarlyMoves DEF AllocateFails
<1>4. CASE OpenTemp(t)
  BY <1>4, QuietMoves DEF OpenTemp
<1>5. CASE OpenTempFails(t)
  BY <1>5, QuietMoves DEF OpenTempFails
<1>6. CASE FillTemp(t)
  BY <1>6, QuietMoves DEF FillTemp
<1>7. CASE ConnectFails(t)
  BY <1>7, ReturnEarlyMoves DEF ConnectFails
<1>8. CASE Send(t)
  <2>1. PICK q : wire' = [wire EXCEPT ![t] = Inflight(q)]
    BY <1>8 DEF Send
  <2>2. Inflight(q).state = "request"
    BY DEF Inflight
  <2> QED  BY <1>8, <2>1, <2>2, WireMoves DEF Send
<1>9. CASE ParseAndGoOn(t)
  BY <1>9, GoOnMoves
<1>10. CASE ParseAndReturn(t)
  BY <1>10, ParseReturnMoves
<1>11. CASE Serve(t)
  BY <1>11, ServeMoves
<1>12. CASE Lose(t)
  BY <1>12, ReturnEarlyMoves DEF Lose
<1>13. CASE Gateway(t)
  <2>1. Text("not_object", 0, NotWritten).state = "not_object"
    BY DEF Text
  <2> QED  BY <1>13, <2>1, WireMoves DEF Gateway
<1>14. CASE Receive(t)
  BY <1>14, ReceiveMoves
<1> QED
  BY <1>1, <1>2, <1>3, <1>4, <1>5, <1>6, <1>7, <1>8, <1>9, <1>10, <1>11,
     <1>12, <1>13, <1>14 DEF Advance, Hear

(* The end of the process leaves every thread where its codes are.         *)
LEMMA CrashKeeps ==
  ASSUME Shape, NEW t \in Thread, ParseCrashes(t)
  PROVE  /\ Shape'
         /\ \A u \in Thread :
              /\ ReplyInv(u)' /\ CodeInv(u)'
              /\ OrderInv(u) => OrderInv(u)' /\ DoneInv(u)'
<1>1. /\ pc' = [u \in Thread |-> "dead"]
      /\ UNCHANGED <<call, step, wire, ret, verdicts>>
  BY DEF ParseCrashes
<1>2. Shape'
  BY <1>1 DEF Shape, Steps
<1>3. ASSUME NEW u \in Thread
      PROVE  /\ ReplyInv(u)' /\ CodeInv(u)'
             /\ OrderInv(u) => OrderInv(u)' /\ DoneInv(u)'
  <2>1. pc'[u] = "dead"
    BY <1>1
  <2> QED  BY <1>1, <2>1 DEF ReplyInv, CodeInv, OrderInv, DoneInv, Returned, Busy
<1> QED  BY <1>2, <1>3

(* Every step keeps the invariant, and the one about readable texts.       *)
LEMMA StepReplies ==
  /\ ReplyCodeInv /\ [Next]_vars => ReplyCodeInv'
  /\ Readable /\ DoneOrderInv /\ [Next]_vars => DoneOrderInv'
<1> SUFFICES ASSUME ReplyCodeInv, [Next]_vars
             PROVE  /\ ReplyCodeInv'
                    /\ Readable /\ DoneOrderInv => DoneOrderInv'
  BY DEF DoneOrderInv
<1> USE DEF ReplyCodeInv, DoneOrderInv
<1>1. ASSUME NEW t \in Thread, Invoke(t) \/ Advance(t) \/ Hear(t),
             ~ParseCrashes(t)
      PROVE  /\ ReplyCodeInv'
             /\ Readable /\ DoneOrderInv => DoneOrderInv'
  <2>1. Moves(t)
    BY <1>1, ThreadMoves
  <2> QED  BY <2>1, SameKeeps DEF Moves
<1>2. ASSUME NEW t \in Thread, ParseCrashes(t)
      PROVE  /\ ReplyCodeInv'
             /\ Readable /\ DoneOrderInv => DoneOrderInv'
  BY <1>2, CrashKeeps
<1>3. CASE ServeLate \/ Tick \/ UNCHANGED vars
  <2>1. UNCHANGED <<pc, call, step, wire, ret, verdicts>>
    BY <1>3 DEF ServeLate, Tick, vars, local
  <2>2. \A u \in Thread : Same(u)
    BY <2>1 DEF Same
  <2>3. Shape'
    BY <2>1 DEF Shape
  <2> QED  BY <2>2, <2>3, SameKeeps
<1> QED  BY <1>1, <1>2, <1>3 DEF Next

(* What holds of replies and codes for either json-c and every fault, and   *)
(* what holds of the order of requests when replies can be read.            *)
LEMMA SpecReplies ==
  /\ Spec => []ReplyCodeInv
  /\ Readable => (Spec => []DoneOrderInv)
<1>1. Init => ReplyCodeInv /\ DoneOrderInv
  BY InitReplies DEF DoneOrderInv
<1>2. Spec => []ReplyCodeInv
  BY <1>1, StepReplies, PTL DEF Spec
<1>3. ASSUME Readable PROVE Spec => []DoneOrderInv
  <2>1. DoneOrderInv /\ [Next]_vars => DoneOrderInv'
    BY <1>3, StepReplies
  <2> QED  BY <1>1, <2>1, PTL DEF Spec
<1> QED  BY <1>2, <1>3

-----------------------------------------------------------------------------
(* With either json-c, any number of threads and any fault: a code of the  *)
(* service's own is returned only for its refusal of the call's last       *)
(* request.                                                                *)
THEOREM CodesAreTheServices == Spec => []CodeIsTheServices
<1>1. ReplyCodeInv => CodeIsTheServices
  BY DEF ReplyCodeInv, CodeInv, CodeIsTheServices, LastCode
<1> QED  BY <1>1, SpecReplies, PTL

(* With the bundled json-c, which ends the process rather than read what   *)
(* is no object, or with the other one and whole replies: success is       *)
(* returned only for requests that the service has all carried out.        *)
THEOREM SuccessIsDone ==
  ASSUME Readable
  PROVE  Spec => []SuccessMeansDone
<1>1. DoneOrderInv => SuccessMeansDone
  BY DEF DoneOrderInv, DoneInv, SuccessMeansDone, XVPR_CODE_SUCCESS
<1> QED  BY <1>1, SpecReplies, PTL

(* Under the same condition, a second request is made only after the first *)
(* has been carried out, and none twice.                                   *)
THEOREM PostsAreInOrder ==
  ASSUME Readable
  PROVE  Spec => []PostsInOrder
<1>1. DoneOrderInv => PostsInOrder
  BY DEF DoneOrderInv, OrderInv, PostsInOrder, XVPR_CODE_SUCCESS
<1> QED  BY <1>1, SpecReplies, PTL

-----------------------------------------------------------------------------
(***************************************************************************)
(* Outputs are true: those of a call are written by its success only, and  *)
(* the checksum of an added speech is that of the caller's stream.         *)
(***************************************************************************)

(* A reply that says success tells the checksum of the caller's stream,    *)
(* and nothing is written but by a return with success.                    *)
OutInv(t) ==
  /\ out[t] # NotWritten =>
       pc[t] \in {"idle", "dead"} /\ ret[t] = XVPR_CODE_SUCCESS
  /\ call[t].op = "add_speech" =>
       /\ pc[t] \in {"wait", "parse"} /\ wire[t].state \in Answer
            /\ wire[t].code = XVPR_CODE_SUCCESS
            => wire[t].data = [md5 |-> call[t].speech]
       /\ Returned(t) /\ ret[t] = XVPR_CODE_SUCCESS
            => out[t] = [md5 |-> call[t].speech]

OutputInv == /\ UploadInv /\ ReplyCodeInv
             /\ out = [t \in Thread |-> out[t]]
             /\ \A t \in Thread : OutInv(t)

(* The others' outputs do not depend on a thread's step.                   *)
LEMMA SameKeepsOut ==
  ASSUME NEW u \in Thread, Same(u), out'[u] = out[u], OutInv(u)
  PROVE  OutInv(u)'
BY DEF Same, OutInv, Returned

(* Success about an added speech tells what the service has heard.         *)
LEMMA AddedIsHeard ==
  ASSUME NEW d, NEW q, q.post = "speech/add", NEW a \in Answers(d, q),
         a.code = XVPR_CODE_SUCCESS
  PROVE  a.data = [md5 |-> q.file]
<1>1. CASE \E c \in Refusals(d, q) \cup Outages : a = Refused(d, c)
  <2>1. PICK c \in Refusals(d, q) \cup Outages : a = Refused(d, c)
    BY <1>1
  <2>2. Refusals(d, q) \subseteq ServiceCodes
    BY Zenon DEF Refusals
  <2>3. Outages \subseteq ServiceCodes
    BY ServerAssumption DEF ServiceCodes
  <2>4. XVPR_CODE_SUCCESS \notin ServiceCodes
    BY DEF XVPR_CODE_SUCCESS, ServiceCodes, PERSON_EXISTS, PERSON_NOT_EXISTS,
       PERSON_NO_SPEECHES, NOT_TRAINED, IDENTIFY_ERROR, SPEECH_TOO_SHORT,
       SPEECH_EXISTS, SPEECH_NOT_EXISTS
  <2> QED  BY <2>1, <2>2, <2>3, <2>4 DEF Refused
<1>2. CASE \E e \in Effects(d, q), f \in Findings(d, q) : a = Done(d, e, f)
  <2>1. PICK e \in Effects(d, q), f \in Findings(d, q) : a = Done(d, e, f)
    BY <1>2
  <2>2. f = [md5 |-> q.file]
    BY <2>1 DEF Findings
  <2> QED  BY <2>1, <2>2 DEF Done
<1> QED  BY <1>1, <1>2 DEF Answers

(* The one request of xvpr_add_speech.                                     *)
LEMMA AddSpeechPosts ==
  ASSUME TypeOK, NEW t \in Thread, ThreadInv(t), Busy(t), call[t].op = "add_speech"
  PROVE  Post(t) = "speech/add" /\ step[t] = 1 /\ IsLastPost(t)
<1>1. step[t] \in 1 .. Len(Posts("add_speech"))
  BY BusyFacts
<1>2. Posts("add_speech") = <<"speech/add">>
  BY DEF Posts
<1>3. Len(Posts("add_speech")) = 1
  BY <1>2
<1>4. step[t] = 1
  <2> DEFINE n == Len(Posts("add_speech"))
  <2>1. n = 1 /\ step[t] \in 1 .. n
    BY <1>1, <1>3
  <2> HIDE DEF n
  <2> QED  BY <2>1
<1>5. IsLastPost(t)
  BY <1>3, <1>4 DEF IsLastPost
<1> QED  BY <1>2, <1>4, <1>5 DEF Post

(* A return that is no success writes nothing.                             *)
LEMMA ReturnKeepsOut ==
  ASSUME ReplyCodeInv, out = [u \in Thread |-> out[u]],
         NEW t \in Thread, OutInv(t), NEW code,
         pc[t] \notin {"idle", "dead"}, code # XVPR_CODE_SUCCESS,
         Return(t, code, out[t])
  PROVE  OutInv(t)' /\ out' = [u \in Thread |-> out'[u]]
         /\ \A u \in Thread \ {t} : out'[u] = out[u]
<1>1. out[t] = NotWritten
  BY DEF OutInv
<1>2. ret'[t] = code /\ out'[t] = NotWritten /\ pc'[t] = "idle"
  BY <1>1 DEF Return, ReplyCodeInv, Shape
<1> QED  BY <1>2 DEF Return, OutInv, Returned

(* One thread's step.                                                      *)
LEMMA ThreadOut ==
  ASSUME Readable, OutputInv, NEW t \in Thread,
         Invoke(t) \/ Advance(t) \/ Hear(t), ~ParseCrashes(t)
  PROVE  /\ OutInv(t)' /\ out' = [u \in Thread |-> out'[u]]
         /\ \A u \in Thread \ {t} : out'[u] = out[u]
<1> DEFINE Goal == /\ OutInv(t)' /\ out' = [u \in Thread |-> out'[u]]
                   /\ \A u \in Thread \ {t} : out'[u] = out[u]
<1>1. /\ Shape /\ OutInv(t) /\ ReplyInv(t) /\ TypeOK /\ ThreadInv(t)
      /\ out = [u \in Thread |-> out[u]] /\ ReplyCodeInv
  BY DEF OutputInv, ReplyCodeInv, UploadInv
<1>2. CASE Invoke(t)
  <2>1. /\ pc' = [pc EXCEPT ![t] = "enter"]
        /\ out' = [out EXCEPT ![t] = NotWritten]
    BY <1>2 DEF Invoke
  <2>2. pc'[t] = "enter" /\ out'[t] = NotWritten
    BY <1>1, <2>1 DEF Shape
  <2> QED  BY <1>1, <2>1, <2>2 DEF OutInv, Returned
<1>3. ASSUME pc[t] \in {"enter", "open", "fill", "parse"}, out' = out,
             NEW place \in {"enter", "open", "fill", "perform"},
             pc' = [pc EXCEPT ![t] = place]
      PROVE  Goal
  <2>1. pc'[t] = place
    BY <1>1, <1>3 DEF Shape
  <2> QED  BY <1>1, <1>3, <2>1 DEF OutInv, Returned
<1>4. CASE Allocate(t)
  BY <1>3, <1>4 DEF Allocate
<1>5. CASE OpenTemp(t)
  BY <1>3, <1>5 DEF OpenTemp
<1>6. CASE OpenTempFails(t)
  BY <1>3, <1>6 DEF OpenTempFails
<1>7. CASE FillTemp(t)
  BY <1>3, <1>7 DEF FillTemp
<1>8. CASE ParseAndGoOn(t)
  BY <1>3, <1>8 DEF ParseAndGoOn
<1>9. CASE AllocateFails(t) \/ ConnectFails(t) \/ Lose(t)
  <2>1. /\ XVPR_CODE_FAIL # XVPR_CODE_SUCCESS
        /\ XVPR_CODE_CONNECT_ERR # XVPR_CODE_SUCCESS
    BY DEF XVPR_CODE_FAIL, XVPR_CODE_SUCCESS, XVPR_CODE_CONNECT_ERR
  <2>2. \/ Return(t, XVPR_CODE_FAIL, out[t])
        \/ Return(t, XVPR_CODE_CONNECT_ERR, out[t])
    BY <1>9 DEF AllocateFails, ConnectFails, Lose
  <2>3. pc[t] \notin {"idle", "dead"}
    BY <1>9 DEF AllocateFails, ConnectFails, Lose
  <2> QED  BY <1>1, <2>1, <2>2, <2>3, ReturnKeepsOut
<1>10. ASSUME pc[t] \in {"perform", "wait"}, out' = out, call' = call,
              NEW w, wire' = [wire EXCEPT ![t] = w],
              pc'[t] \in {"wait", "parse"},
              call[t].op = "add_speech" /\ w.state \in Answer
                /\ w.code = XVPR_CODE_SUCCESS
                => w.data = [md5 |-> call[t].speech]
       PROVE  Goal
  <2>1. wire'[t] = w
    BY <1>1, <1>10 DEF Shape
  <2>2. out[t] = NotWritten
    BY <1>1, <1>10 DEF OutInv
  <2> QED  BY <1>1, <1>10, <2>1, <2>2 DEF OutInv, Returned
<1>11. CASE Send(t)
  <2>1. PICK q : wire' = [wire EXCEPT ![t] = Inflight(q)]
    BY <1>11 DEF Send
  <2>2. Inflight(q).state \notin Answer
    BY DEF Inflight, Answer
  <2>3. pc[t] = "perform" /\ pc'[t] = "wait" /\ UNCHANGED <<out, call>>
    BY <1>1, <1>11 DEF Send, Shape
  <2> QED  BY <1>10, <2>1, <2>2, <2>3
<1>12. CASE Gateway(t)
  <2>1. Text("not_object", 0, NotWritten).state \notin Answer
    BY DEF Text, Answer
  <2>2. /\ pc[t] = "wait" /\ pc'[t] = "parse" /\ UNCHANGED <<out, call>>
        /\ wire' = [wire EXCEPT ![t] = Text("not_object", 0, NotWritten)]
    BY <1>1, <1>12 DEF Gateway, Shape
  <2> QED  BY <1>10, <2>1, <2>2
<1>13. CASE Serve(t)
  <2>1. PICK a \in Answers(db, wire[t].q) :
               wire' = [wire EXCEPT ![t] = Answered(a)]
    BY <1>13 DEF Serve
  <2>2. /\ pc[t] = "wait" /\ wire[t].state = "request"
        /\ pc' = pc /\ UNCHANGED <<out, call>>
    BY <1>13 DEF Serve
  <2>3. wire[t].q = RequestOf(call[t], step[t], call[t].speech)
    BY <1>1, <2>2 DEF ThreadInv, RequestInv
  <2>4. ASSUME call[t].op = "add_speech", a.code = XVPR_CODE_SUCCESS
        PROVE  a.data = [md5 |-> call[t].speech]
    <3>1. Busy(t)
      BY <2>2 DEF Busy
    <3>2. Post(t) = "speech/add"
      BY <1>1, <2>4, <3>1, AddSpeechPosts
    <3>3. wire[t].q.post = "speech/add" /\ wire[t].q.file = call[t].speech
      BY <2>3, <3>2 DEF RequestOf, Post
    <3> QED  BY <2>1, <2>4, <3>3, AddedIsHeard
  <2>5. Answered(a).code = a.code /\ Answered(a).data = a.data
    BY DEF Answered
  <2> QED  BY <1>10, <2>1, <2>2, <2>4, <2>5
<1>14. CASE Receive(t)
  <2>1. PICK kind : wire' = [wire EXCEPT ![t] =
                               Text(kind, wire[t].code, wire[t].data)]
    BY <1>14 DEF Receive
  <2>2. /\ pc[t] = "wait" /\ wire[t].state = "reply"
        /\ pc'[t] = "parse" /\ UNCHANGED <<out, call>>
    BY <1>1, <1>14 DEF Receive, Shape
  <2> DEFINE w == Text(kind, wire[t].code, wire[t].data)
  <2>3. w.code = wire[t].code /\ w.data = wire[t].data
    BY DEF Text
  <2>4. call[t].op = "add_speech" /\ w.code = XVPR_CODE_SUCCESS
          => w.data = [md5 |-> call[t].speech]
    BY <1>1, <2>2, <2>3 DEF OutInv, Answer
  <2> QED  BY <1>10, <2>1, <2>2, <2>4
<1>15. CASE ParseAndReturn(t)
  <2>1. pc[t] = "parse" /\ ~ReadingCrashes(t) /\ Busy(t) /\ out[t] = NotWritten
    BY <1>1, <1>15 DEF ParseAndReturn, Busy, OutInv
  <2>2. CASE ParsedSuccess(t)
    <3>1. Return(t, XVPR_CODE_SUCCESS, Outputs(t))
      BY <1>15, <2>2 DEF ParseAndReturn
    <3>2. /\ pc'[t] = "idle" /\ ret'[t] = XVPR_CODE_SUCCESS
          /\ out'[t] = Outputs(t) /\ call' = call
          /\ out' = [out EXCEPT ![t] = Outputs(t)]
      BY <1>1, <3>1 DEF Return, Shape
    <3>3. ASSUME call[t].op = "add_speech"
          PROVE  Outputs(t) = [md5 |-> call[t].speech]
      <4>1. wire[t].state = "whole" /\ wire[t].code = 0
        BY <1>1, <2>1, <2>2, ParsedFacts
      <4>2. wire[t].data = [md5 |-> call[t].speech]
        BY <1>1, <2>1, <3>3, <4>1 DEF OutInv, Answer, XVPR_CODE_SUCCESS
      <4>3. ~HoldsNobody(t)
        BY <1>1, <2>1, <3>3, AddSpeechPosts DEF HoldsNobody
      <4>4. Outputs(t) = OutputsOf(call[t], wire[t].data)
        BY <4>3 DEF Outputs
      <4>5. OutputsOf(call[t], wire[t].data) = [md5 |-> wire[t].data.md5]
        BY <3>3 DEF OutputsOf
      <4> QED  BY <4>2, <4>4, <4>5
    <3> QED  BY <1>1, <3>2, <3>3 DEF OutInv, Returned
  <2>3. CASE ~ParsedSuccess(t)
    <3>1. Return(t, ParsedCode(t), out[t])
      BY <1>15, <2>3 DEF ParseAndReturn
    <3>2. CASE ParsedCode(t) # XVPR_CODE_SUCCESS
      BY <1>1, <2>1, <3>1, <3>2, ReturnKeepsOut
    <3>3. CASE call[t].op # "add_speech"
      <4>1. out'[t] = NotWritten /\ call' = call
            /\ out' = [out EXCEPT ![t] = NotWritten]
        BY <1>1, <2>1, <3>1 DEF Return
      <4> QED  BY <1>1, <3>3, <4>1 DEF OutInv
    <3>4. CASE call[t].op = "add_speech" /\ ParsedCode(t) = XVPR_CODE_SUCCESS
      <4>1. wire[t].state \in {"whole", "inner"}
        BY <1>1, <2>1, ParsedFacts
      <4>2. Post(t) = "speech/add"
        BY <1>1, <2>1, <3>4, AddSpeechPosts
      <4>3. wire[t].state = "whole"
        BY <1>1, <2>1, <4>1, <4>2 DEF ReplyInv
      <4>4. wire[t].code = 0
        BY <3>4, <4>3 DEF ParsedCode, ErrorCodeField, XVPR_CODE_SUCCESS
      <4> QED  BY <2>3, <4>3, <4>4 DEF ParsedSuccess, SuccessField
    <3> QED  BY <3>2, <3>3, <3>4
  <2> QED  BY <2>2, <2>3
<1> QED
  BY <1>2, <1>4, <1>5, <1>6, <1>7, <1>8, <1>9, <1>11, <1>12, <1>13, <1>14,
     <1>15 DEF Advance, Hear

(* Every step keeps the outputs true.                                      *)
LEMMA StepOutputs ==
  ASSUME Readable, OwnFiles, WriteFaults = {}
  PROVE  OutputInv /\ [Next]_vars => OutputInv'
<1> SUFFICES ASSUME OutputInv, [Next]_vars PROVE OutputInv'
  OBVIOUS
<1>1. UploadInv' /\ ReplyCodeInv'
  BY StepUploadInv, StepReplies DEF OutputInv
<1>2. ASSUME NEW t \in Thread, Invoke(t) \/ Advance(t) \/ Hear(t),
             ~ParseCrashes(t)
      PROVE  OutputInv'
  <2>1. /\ OutInv(t)' /\ out' = [u \in Thread |-> out'[u]]
        /\ \A u \in Thread \ {t} : out'[u] = out[u]
    BY <1>2, ThreadOut
  <2>2. \A u \in Thread \ {t} : Same(u)
    BY <1>2, ThreadMoves DEF OutputInv, ReplyCodeInv, Moves
  <2>3. \A u \in Thread : OutInv(u)'
    BY <2>1, <2>2, SameKeepsOut DEF OutputInv
  <2> QED  BY <1>1, <2>1, <2>3 DEF OutputInv
<1>3. ASSUME NEW t \in Thread, ParseCrashes(t)
      PROVE  OutputInv'
  <2>1. /\ pc' = [u \in Thread |-> "dead"]
        /\ UNCHANGED <<call, wire, ret, out>>
    BY <1>3 DEF ParseCrashes
  <2>2. ASSUME NEW u \in Thread
        PROVE  OutInv(u)'
    <3>1. pc'[u] = "dead" /\ OutInv(u)
      BY <2>1 DEF OutputInv
    <3> QED  BY <2>1, <3>1 DEF OutInv, Returned
  <2> QED  BY <1>1, <2>1, <2>2 DEF OutputInv
<1>4. CASE ServeLate \/ Tick \/ UNCHANGED vars
  <2>1. UNCHANGED <<pc, call, step, wire, ret, out, verdicts>>
    BY <1>4 DEF ServeLate, Tick, vars, local
  <2>2. \A u \in Thread : Same(u) /\ out'[u] = out[u]
    BY <2>1 DEF Same
  <2>3. \A u \in Thread : OutInv(u)'
    BY <2>2, SameKeepsOut DEF OutputInv
  <2> QED  BY <1>1, <2>1, <2>3 DEF OutputInv
<1> QED  BY <1>2, <1>3, <1>4 DEF Next

(* Whatever happens to requests and memory: outputs are written by         *)
(* successful calls only, and the checksum that xvpr_add_speech returns is *)
(* that of the stream its caller passed, not of another thread's.          *)
THEOREM OutputsAreTheCallers ==
  ASSUME Readable, OwnFiles, WriteFaults = {}
  PROVE  Spec => []OutputsAreTrue
<1>1. Init => OutputInv
  <2> SUFFICES ASSUME Init PROVE OutputInv
    OBVIOUS
  <2>1. UploadInv /\ ReplyCodeInv
    BY InitUploadInv, InitReplies DEF DoneOrderInv
  <2>2. ASSUME NEW t \in Thread
        PROVE  OutInv(t)
    BY DEF Init, OutInv, Returned
  <2> QED  BY <2>1, <2>2 DEF Init, OutputInv
<1>2. OutputInv /\ [Next]_vars => OutputInv'
  BY StepOutputs
<1>3. OutputInv => OutputsAreTrue
  BY DEF OutputInv, OutInv, OutputsAreTrue, Returned
<1> QED  BY <1>1, <1>2, <1>3, PTL DEF Spec

-----------------------------------------------------------------------------
(***************************************************************************)
(* The calls of XvprClient implement ApiContract, for any number of        *)
(* threads, groups, names, recordings and calls: buffers, files and        *)
(* connections are their inside.  Assumed: the threads have files of their *)
(* own, writing them does not fail, replies come whole or not at all, and  *)
(* the service knows whom it finds.  Memory and connections may fail at    *)
(* any time, and requests arrive after their calls have given up.          *)
(***************************************************************************)

(* What the refinement assumes of the constants.                           *)
Sheltered ==
  /\ OwnFiles /\ WriteFaults = {} /\ ReplyFaults = {}
  /\ EmptyFinds = FALSE

(* A reply holds the data of the latest verdict, and an answered find is   *)
(* about somebody.                                                         *)
DataInv(t) ==
  pc[t] \in {"wait", "parse"} /\ wire[t].state \in Answer =>
    /\ wire[t].data = verdicts[t][Len(verdicts[t])].data
    /\ Post(t) = "person/find" /\ wire[t].code = 0 =>
         wire[t].data # [persons |-> 0]

ContractInv ==
  /\ UploadInv
  /\ DoneOrderInv
  /\ \A t \in Thread : DataInv(t) /\ pc[t] # "dead"
  /\ out = [t \in Thread |-> out[t]]

-----------------------------------------------------------------------------
(* The contract speaks of the same calls and the same service.             *)
LEMMA SameService ==
  /\ \A op : Contract!Posts(op) = Posts(op)
  /\ \A t : Contract!Calls(t) = Calls(t)
  /\ \A c, i, f : Contract!RequestOf(c, i, f) = RequestOf(c, i, f)
  /\ \A c, d : Contract!OutputsOf(c, d) = OutputsOf(c, d)
  /\ Contract!NotWritten = NotWritten
  /\ Contract!NoCall = NoCall
  /\ Contract!NoCode = NoCode
  /\ Contract!EmptyDatabase = EmptyDatabase
  /\ Contract!XVPR_CODE_SUCCESS = 0
  /\ Contract!XVPR_CODE_FAIL = 1
  /\ Contract!XVPR_CODE_CONNECT_ERR = 2
<1>1. \A op : Contract!Posts(op) = Posts(op)
  BY DEF Contract!Posts, Posts
<1>2. \A t : Contract!Calls(t) = Calls(t)
  BY DEF Contract!Calls, Calls, Contract!Call, Call, Contract!API, API,
     Contract!ClientInit, ClientInit, Contract!Streams, Streams,
     Contract!TakesSpeech, TakesSpeech
<1>3. \A c, i, f : Contract!RequestOf(c, i, f) = RequestOf(c, i, f)
  BY <1>1 DEF Contract!RequestOf, RequestOf
<1>4. \A c, d : Contract!OutputsOf(c, d) = OutputsOf(c, d)
  BY DEF Contract!OutputsOf, OutputsOf, Contract!NotWritten, NotWritten
<1>5. Contract!EmptyDatabase = EmptyDatabase
  BY DEF Contract!EmptyDatabase, EmptyDatabase, Contract!Key, Key
<1> QED
  BY <1>1, <1>2, <1>3, <1>4, <1>5 DEF Contract!NotWritten, NotWritten,
     Contract!NoCall, NoCall, Contract!NoCode, NoCode,
     Contract!XVPR_CODE_SUCCESS, Contract!XVPR_CODE_FAIL,
     Contract!XVPR_CODE_CONNECT_ERR

(* The service of the contract is the service of the calls: it answers a    *)
(* request alike.                                                           *)
LEMMA SameAnswers ==
  ASSUME NEW d, NEW q
  PROVE  Contract!Answers(d, q) = Answers(d, q)
<1>1. Contract!KeyOf(q) = KeyOf(q)
  BY DEF Contract!KeyOf, KeyOf
<1>2. Contract!ServiceCodes = ServiceCodes
  BY DEF Contract!ServiceCodes, ServiceCodes,
     Contract!PERSON_EXISTS, Contract!PERSON_NOT_EXISTS,
     Contract!PERSON_NO_SPEECHES, Contract!NOT_TRAINED,
     Contract!IDENTIFY_ERROR, Contract!SPEECH_TOO_SHORT,
     Contract!SPEECH_EXISTS, Contract!SPEECH_NOT_EXISTS,
     PERSON_EXISTS, PERSON_NOT_EXISTS, PERSON_NO_SPEECHES, NOT_TRAINED,
     IDENTIFY_ERROR, SPEECH_TOO_SHORT, SPEECH_EXISTS, SPEECH_NOT_EXISTS
<1>3. \A s : Contract!Heard(s) = Heard(s)
  BY DEF Contract!Heard, Heard
<1>4. \A g : Contract!TrainedIn(d, g) = TrainedIn(d, g)
  BY DEF Contract!TrainedIn, TrainedIn
<1>5. \A m : Contract!Owners(d, m) = Owners(d, m)
  BY <1>3 DEF Contract!Owners, Owners
<1>6. \A c : Contract!IsReason(c, d, q) = IsReason(c, d, q)
  BY <1>1, <1>3, <1>4, <1>5 DEF Contract!IsReason, IsReason,
     Contract!PERSON_EXISTS, Contract!PERSON_NOT_EXISTS,
     Contract!PERSON_NO_SPEECHES, Contract!NOT_TRAINED,
     Contract!IDENTIFY_ERROR, Contract!SPEECH_TOO_SHORT,
     Contract!SPEECH_EXISTS, Contract!SPEECH_NOT_EXISTS,
     PERSON_EXISTS, PERSON_NOT_EXISTS, PERSON_NO_SPEECHES, NOT_TRAINED,
     IDENTIFY_ERROR, SPEECH_TOO_SHORT, SPEECH_EXISTS, SPEECH_NOT_EXISTS,
     Contract!NeedsPerson, NeedsPerson, Contract!FilePosts, FilePosts
<1>7. Contract!Refusals(d, q) = Refusals(d, q)
  BY <1>2, <1>6 DEF Contract!Refusals, Refusals
<1>8. Contract!Effects(d, q) = Effects(d, q)
  <2>1. \A s, n : Contract!Latest(s, n) = Latest(s, n)
    BY DEF Contract!Latest, Latest
  <2>2. \A s, r : Contract!Without(s, r) = Without(s, r)
    BY DEF Contract!Without, Without
  <2>3. \A k, s : Contract!WithSpeeches(d, k, s) = WithSpeeches(d, k, s)
    BY DEF Contract!WithSpeeches, WithSpeeches
  <2>4. \A k : /\ Contract!Created(d, k) = Created(d, k)
               /\ Contract!Deleted(d, k) = Deleted(d, k)
               /\ Contract!WithModel(d, k) = WithModel(d, k)
    BY <1>3 DEF Contract!Created, Created, Contract!Deleted, Deleted,
       Contract!WithModel, WithModel
  <2> QED
    BY <1>1, <1>5, <2>1, <2>2, <2>3, <2>4 DEF Contract!Effects, Effects
<1>9. Contract!Findings(d, q) = Findings(d, q)
  BY <1>1, <1>4 DEF Contract!Findings, Findings
<1>10. \A e, c, f : /\ Contract!Refused(e, c) = Refused(e, c)
                    /\ Contract!Done(e, c, f) = Done(e, c, f)
  BY DEF Contract!Refused, Refused, Contract!Done, Done,
     Contract!XVPR_CODE_SUCCESS, XVPR_CODE_SUCCESS
<1> QED
  BY <1>1, <1>7, <1>8, <1>9, <1>10 DEF Contract!Answers, Answers
(* Without empty finds, the reply to a find is never about nobody.         *)
LEMMA FindsSomebody ==
  ASSUME EmptyFinds = FALSE, NEW d, NEW q, q.post = "person/find",
         NEW a \in Answers(d, q)
  PROVE  a.data # [persons |-> 0]
<1>1. \/ \E c : a = Refused(d, c)
      \/ \E e : \E f \in Findings(d, q) : a = Done(d, e, f)
  BY DEF Answers
<1>2. ASSUME NEW c, a = Refused(d, c) PROVE a.data # [persons |-> 0]
  BY <1>2 DEF Refused
<1>3. ASSUME NEW e, NEW f \in Findings(d, q), a = Done(d, e, f)
      PROVE  a.data # [persons |-> 0]
  <2>1. f = [flag |-> d.models[KeyOf(q)] # {}]
    BY DEF Findings
  <2>2. a.data = f
    BY <1>3 DEF Done
  <2> QED  BY <2>1, <2>2
<1> QED  BY <1>1, <1>2, <1>3

(* A thread that is in a call, as the contract sees it.                    *)
InCall == [t \in Thread |-> pc[t] # "idle"]

(* A thread is busy in the contract exactly when its pc is not idle; a step *)
(* of the pc changes that only for its own thread.                          *)
LEMMA InCallFacts ==
  ASSUME pc \in [Thread -> Steps], NEW t \in Thread, NEW place \in Steps,
         pc' = [pc EXCEPT ![t] = place]
  PROVE  /\ InCall[t] <=> pc[t] # "idle"
         /\ place = "idle" => InCall' = [InCall EXCEPT ![t] = FALSE]
         /\ place # "idle" => InCall' = [InCall EXCEPT ![t] = TRUE]
         /\ place # "idle" /\ pc[t] # "idle" => InCall' = InCall
<1>1. \A u \in Thread : pc'[u] = IF u = t THEN place ELSE pc[u]
  OBVIOUS
<1>2. InCall' = [u \in Thread |-> pc'[u] # "idle"]
  BY DEF InCall
<1> QED  BY <1>1, <1>2 DEF InCall

(* What a step shows outside.                                              *)
Shows == Contract!Next \/ UNCHANGED <<InCall, call, verdicts, ret, out, db, late>>

(* The verdicts of a call that is about to ask, and of one that has.       *)
LEMMA AskingFacts ==
  ASSUME NEW t \in Thread, Shape, OrderInv(t), pc[t] # "idle", pc[t] # "dead",
         Len(verdicts[t]) = step[t] - 1
  PROVE  /\ Contract!AllCarriedOut(t)
         /\ Contract!MoreToAsk(t)
         /\ Contract!Asked(t) + 1 = step[t]
<1>1. step[t] \in 1 .. Len(Posts(call[t].op)) /\ Len(Posts(call[t].op)) \in Nat
  BY PostsAre DEF OrderInv, Busy
<1> QED
  BY <1>1, SameService DEF OrderInv, Contract!AllCarriedOut,
     Contract!MoreToAsk, Contract!Asked

(* What a call leaves behind that gives up.                                *)
Leaves(t) == /\ Contract!AllCarriedOut(t)
             /\ Contract!MoreToAsk(t)
             /\ late' = late \cup {Contract!NextRequest(t)}

(* A call returns an error of its own: no memory, no connection.           *)
LEMMA FailShows ==
  ASSUME NEW t \in Thread, Shape, OrderInv(t), out = [u \in Thread |-> out[u]],
         NEW code, Return(t, code, out[t]), db' = db, pc[t] # "dead",
         \/ code = XVPR_CODE_FAIL /\ pc[t] = "enter" /\ late' = late
         \/ /\ code = XVPR_CODE_CONNECT_ERR /\ pc[t] # "idle"
            /\ late' = late \/ Leaves(t)
  PROVE  Shows /\ out' = out
<1>1. /\ pc' = [pc EXCEPT ![t] = "idle"] /\ "idle" \in Steps
      /\ ret' = [ret EXCEPT ![t] = code]
      /\ out' = [out EXCEPT ![t] = out[t]]
      /\ UNCHANGED <<call, verdicts>>
  BY DEF Return, Steps
<1>2. out' = out
  BY <1>1
<1>3. InCall[t] /\ InCall' = [InCall EXCEPT ![t] = FALSE]
  BY <1>1, InCallFacts DEF Shape
<1>4. CASE code = XVPR_CODE_CONNECT_ERR /\ (late' = late \/ Leaves(t))
  <2>1. Contract!ConnectError(t)
    BY <1>1, <1>2, <1>3, <1>4, SameService
       DEF Contract!ConnectError, Contract!End, InCall, XVPR_CODE_CONNECT_ERR,
           Leaves
  <2> QED  BY <1>2, <2>1 DEF Shows, Contract!Next
<1>5. CASE code = XVPR_CODE_FAIL /\ pc[t] = "enter" /\ late' = late
  <2>1. Contract!AllCarriedOut(t) /\ Contract!MoreToAsk(t)
    BY <1>5, AskingFacts DEF OrderInv
  <2>2. Contract!Fail(t)
    BY <1>1, <1>2, <1>3, <1>5, <2>1, SameService
       DEF Contract!Fail, Contract!End, InCall, XVPR_CODE_FAIL
  <2> QED  BY <1>2, <2>2 DEF Shows, Contract!Next
<1> QED  BY <1>4, <1>5

(* The service answers.                                                    *)
LEMMA ServeShows ==
  ASSUME Sheltered, ContractInv, NEW t \in Thread, Serve(t)
  PROVE  Shows /\ DataInv(t)'
<1>1. PICK a \in Answers(db, wire[t].q) :
        /\ db' = a.db
        /\ verdicts' = [verdicts EXCEPT ![t] = Append(@, Verdict(a))]
        /\ wire' = [wire EXCEPT ![t] = Answered(a)]
  BY DEF Serve
<1>2. /\ pc[t] = "wait" /\ wire[t].state = "request"
      /\ UNCHANGED <<pc, call, step, ret, out, late>>
  BY DEF Serve
<1>3. Shape /\ OrderInv(t) /\ Len(verdicts[t]) = step[t] - 1
  BY <1>2 DEF ContractInv, DoneOrderInv, ReplyCodeInv, OrderInv
<1>4. /\ Contract!AllCarriedOut(t) /\ Contract!MoreToAsk(t)
      /\ Contract!Asked(t) + 1 = step[t]
  BY <1>2, <1>3, AskingFacts
<1>5. wire[t].q = RequestOf(call[t], step[t], call[t].speech)
  BY <1>2 DEF ContractInv, UploadInv, ThreadInv, RequestInv
<1>6. a \in Contract!Answers(db, Contract!NextRequest(t))
  BY <1>1, <1>4, <1>5, SameAnswers, SameService DEF Contract!NextRequest
<1>7. Contract!Ask(t)
  BY <1>1, <1>2, <1>4, <1>6 DEF Contract!Ask, Verdict
<1>8. DataInv(t)'
  <2>1. wire'[t].data = a.data /\ wire'[t].code = a.code
    BY <1>1, <1>3 DEF Shape, Answered
  <2>2. verdicts'[t][Len(verdicts'[t])].data = a.data
    <3>1. verdicts'[t] = Append(verdicts[t], Verdict(a))
      BY <1>1, <1>3 DEF Shape
    <3>2. IsSequence(verdicts[t])
      BY <1>3 DEF Shape
    <3>3. verdicts'[t][Len(verdicts'[t])] = Verdict(a)
      BY <3>1, <3>2, AppendFacts
    <3> QED  BY <3>3 DEF Verdict
  <2>3. Post(t)' = wire[t].q.post
    BY <1>2, <1>5 DEF Post, RequestOf
  <2>4. Post(t)' = "person/find" => a.data # [persons |-> 0]
    BY <2>3, FindsSomebody DEF Sheltered
  <2> QED  BY <2>1, <2>2, <2>4 DEF DataInv
<1> QED  BY <1>7, <1>8 DEF Shows, Contract!Next
(* A call returns what the whole reply says.                               *)
LEMMA ParseReturnShows ==
  ASSUME Sheltered, ContractInv, NEW t \in Thread, ParseAndReturn(t)
  PROVE  Shows /\ out' = [u \in Thread |-> out'[u]]
<1> DEFINE n == Len(verdicts[t])
           v == verdicts[t][n]
<1>1. /\ pc[t] = "parse" /\ wire[t].state = "whole"
      /\ IsLastPost(t) \/ ~GoesOn(t)
      /\ Shape /\ OrderInv(t) /\ ReplyInv(t) /\ DataInv(t)
      /\ out = [u \in Thread |-> out[u]]
  BY DEF ParseAndReturn, Sheltered, ContractInv, DoneOrderInv, ReplyCodeInv,
     ReplyInv
<1>2. /\ n = step[t] /\ step[t] \in Nat \ {0}
      /\ v.code = wire[t].code /\ v.data = wire[t].data
      /\ \A i \in 1 .. n - 1 : verdicts[t][i].code = 0
  BY <1>1 DEF OrderInv, ReplyInv, DataInv, Answer, LastCode, Shape
<1>3. /\ ParsedSuccess(t) <=> wire[t].code = 0
      /\ ParsedCode(t) = wire[t].code
  BY <1>1 DEF ParsedSuccess, SuccessField, ParsedCode, ErrorCodeField
<1>4. ASSUME NEW code, NEW o, Return(t, code, o), db' = db
      PROVE  /\ Contract!End(t, code)
             /\ out' = [out EXCEPT ![t] = o]
             /\ InCall[t]
  <2>1. /\ pc' = [pc EXCEPT ![t] = "idle"] /\ "idle" \in Steps
        /\ ret' = [ret EXCEPT ![t] = code]
        /\ out' = [out EXCEPT ![t] = o]
        /\ UNCHANGED <<call, verdicts>>
    BY <1>4 DEF Return, Steps
  <2>2. InCall[t] /\ InCall' = [InCall EXCEPT ![t] = FALSE]
    BY <1>1, <2>1, InCallFacts DEF Shape
  <2> QED  BY <1>4, <2>1, <2>2 DEF Contract!End, InCall
<1>5. db' = db /\ late' = late
  BY DEF ParseAndReturn, shared
<1> HIDE DEF n, v
<1>6. CASE wire[t].code = 0
  <2>1. Return(t, XVPR_CODE_SUCCESS, Outputs(t))
    BY <1>3, <1>6 DEF ParseAndReturn
  <2>2. step[t] = Len(Posts(call[t].op))
    BY <1>1, <1>3, <1>6 DEF IsLastPost, GoesOn
  <2>3. Outputs(t) = OutputsOf(call[t], v.data)
    BY <1>1, <1>2, <1>6 DEF Outputs, HoldsNobody, DataInv, Answer
  <2>4. Contract!AllCarriedOut(t) /\ ~Contract!MoreToAsk(t)
    BY <1>2, <1>6, <2>2, SameService
       DEF Contract!AllCarriedOut, Contract!MoreToAsk, Contract!Asked, n, v
  <2>5. Contract!Succeed(t)
    BY <1>4, <1>5, <2>1, <2>3, <2>4, SameService
       DEF Contract!Succeed, Contract!Asked, InCall, XVPR_CODE_SUCCESS, n, v
  <2> QED  BY <1>1, <1>4, <1>5, <2>1, <2>5 DEF Shows, Contract!Next
<1>7. CASE wire[t].code # 0
  <2>1. Return(t, wire[t].code, out[t])
    BY <1>3, <1>7 DEF ParseAndReturn
  <2>2. ~Contract!AllCarriedOut(t)
    <3>1. n \in 1 .. n /\ verdicts[t][n].code # 0
      BY <1>2, <1>7 DEF v
    <3> QED  BY <3>1, SameService DEF Contract!AllCarriedOut, Contract!Asked, n
  <2>3. out' = out
    BY <1>1, <1>4, <1>5, <2>1
  <2>4. verdicts[t][Contract!Asked(t)].code = wire[t].code
    BY <1>2 DEF Contract!Asked, n, v
  <2>5. /\ pc' = [pc EXCEPT ![t] = "idle"] /\ "idle" \in Steps
        /\ ret' = [ret EXCEPT ![t] = wire[t].code]
        /\ UNCHANGED <<call, verdicts>>
    BY <2>1 DEF Return, Steps
  <2>6. InCall[t] /\ InCall' = [InCall EXCEPT ![t] = FALSE]
    BY <1>1, <2>5, InCallFacts DEF Shape
  <2>7. Contract!PassOnRefusal(t)
    BY <1>5, <2>2, <2>3, <2>4, <2>5, <2>6
       DEF Contract!PassOnRefusal, Contract!End, InCall
  <2> QED  BY <1>1, <2>3, <2>7 DEF Shows, Contract!Next
<1> QED  BY <1>6, <1>7

(* The steps of a call that show nothing.                                  *)
LEMMA InsideShows ==
  ASSUME pc \in [Thread -> Steps], NEW t \in Thread,
         NEW place \in Steps \ {"idle"}, pc[t] # "idle",
         pc' = [pc EXCEPT ![t] = place],
         UNCHANGED <<call, verdicts, ret, out, db, late>>
  PROVE  Shows
BY InCallFacts DEF Shows

(* Texts that are read never end the process.                              *)
LEMMA NoCrash ==
  ASSUME Sheltered, ContractInv, NEW t \in Thread
  PROVE  ~ParseCrashes(t)
<1> SUFFICES ASSUME pc[t] = "parse", ReadingCrashes(t) PROVE FALSE
  BY DEF ParseCrashes
<1>1. wire[t].state = "whole" /\ DataInv(t)
  BY DEF Sheltered, ContractInv, DoneOrderInv, ReplyCodeInv, ReplyInv
<1>2. ~AccessCrashes(wire[t].state)
  BY <1>1 DEF AccessCrashes, ParsesToObject
<1>3. ~HoldsNobody(t)
  BY <1>1 DEF HoldsNobody, ParsedSuccess, SuccessField, DataInv, Answer
<1> QED  BY <1>2, <1>3 DEF ReadingCrashes

(* One step of a call, outside and inside.                                 *)
LEMMA ThreadShows ==
  ASSUME Sheltered, ContractInv, NEW t \in Thread,
         Invoke(t) \/ Advance(t) \/ Hear(t)
  PROVE  /\ Shows /\ DataInv(t)' /\ pc'[t] # "dead"
         /\ out' = [u \in Thread |-> out'[u]]
<1>0. /\ Shape /\ OrderInv(t) /\ ReplyInv(t) /\ pc[t] # "dead"
      /\ pc \in [Thread -> Steps]
      /\ wire = [u \in Thread |-> wire[u]]
      /\ out = [u \in Thread |-> out[u]]
  BY DEF ContractInv, DoneOrderInv, ReplyCodeInv, Shape
<1>1. ASSUME pc' = [pc EXCEPT ![t] = "idle"] \/ pc' = [pc EXCEPT ![t] = "enter"]
      PROVE  DataInv(t)' /\ pc'[t] # "dead"
  BY <1>0, <1>1 DEF DataInv
<1>2. CASE Invoke(t)
  <2>1. PICK c \in Calls(t) : call' = [call EXCEPT ![t] = c]
    BY <1>2 DEF Invoke
  <2>2. /\ pc[t] = "idle" /\ "enter" \in Steps
        /\ pc' = [pc EXCEPT ![t] = "enter"]
        /\ ret' = [ret EXCEPT ![t] = NoCode]
        /\ out' = [out EXCEPT ![t] = NotWritten]
        /\ verdicts' = [verdicts EXCEPT ![t] = << >>]
        /\ UNCHANGED <<db, late>>
    BY <1>2 DEF Invoke, Steps
  <2>3. ~InCall[t] /\ InCall' = [InCall EXCEPT ![t] = TRUE]
    BY <1>0, <2>2, InCallFacts
  <2>4. Contract!Begin(t)
    BY <2>1, <2>2, <2>3, SameService DEF Contract!Begin, InCall
  <2> QED  BY <1>0, <1>1, <2>2, <2>4 DEF Shows, Contract!Next
<1>3. CASE Allocate(t) \/ OpenTemp(t) \/ OpenTempFails(t) \/ FillTemp(t)
  <2>1. PICK place \in {"open", "fill", "perform"} :
          pc' = [pc EXCEPT ![t] = place]
    BY <1>3 DEF Allocate, OpenTemp, OpenTempFails, FillTemp
  <2>2. UNCHANGED <<call, verdicts, ret, out, db, late>> /\ pc[t] # "idle"
    BY <1>3 DEF Allocate, OpenTemp, OpenTempFails, FillTemp, shared
  <2>3. Shows
    BY <1>0, <2>1, <2>2, InsideShows DEF Steps
  <2> QED  BY <1>0, <2>1, <2>2, <2>3 DEF DataInv
<1>4. CASE AllocateFails(t)
  <2>1. Return(t, XVPR_CODE_FAIL, out[t]) /\ pc[t] = "enter"
        /\ UNCHANGED <<db, late>>
    BY <1>4 DEF AllocateFails, shared
  <2> QED  BY <1>0, <1>1, <2>1, FailShows DEF Return
<1>5. CASE ConnectFails(t)
  <2>1. Return(t, XVPR_CODE_CONNECT_ERR, out[t]) /\ pc[t] = "perform"
        /\ UNCHANGED <<db, late>>
    BY <1>5 DEF ConnectFails, shared
  <2> QED  BY <1>0, <1>1, <2>1, FailShows DEF Return
<1>6. CASE Send(t)
  <2>1. PICK q : wire' = [wire EXCEPT ![t] = Inflight(q)]
    BY <1>6 DEF Send
  <2>2. /\ pc[t] = "perform" /\ pc' = [pc EXCEPT ![t] = "wait"]
        /\ UNCHANGED <<call, verdicts, ret, out, db, late>>
    BY <1>6 DEF Send, shared
  <2>3. wire'[t].state = "request"
    BY <1>0, <2>1 DEF Inflight
  <2>4. Shows
    BY <1>0, <2>2, InsideShows DEF Steps
  <2> QED  BY <1>0, <2>2, <2>3, <2>4 DEF DataInv, Answer
<1>7. CASE ParseAndGoOn(t)
  <2>1. /\ pc[t] = "parse" /\ pc' = [pc EXCEPT ![t] = "enter"]
        /\ UNCHANGED <<call, verdicts, ret, out, db, late>>
    BY <1>7 DEF ParseAndGoOn, shared
  <2> QED  BY <1>0, <1>1, <2>1, InsideShows DEF Steps
<1>8. CASE ParseAndReturn(t)
  <2>1. pc' = [pc EXCEPT ![t] = "idle"] /\ late' = late
    BY <1>8 DEF ParseAndReturn, Return, shared
  <2> QED  BY <1>0, <1>1, <1>8, <2>1, ParseReturnShows
<1>9. CASE Serve(t)
  BY <1>0, <1>9, ServeShows DEF Serve
<1>10. CASE Lose(t)
  <2>1. Return(t, XVPR_CODE_CONNECT_ERR, out[t]) /\ pc[t] = "wait"
        /\ db' = db
    BY <1>10 DEF Lose
  <2>2. late' = late \/ Leaves(t)
    <3>1. SUFFICES ASSUME wire[t].state = "request",
                          late' = late \cup {wire[t].q}
                   PROVE  Leaves(t)
      BY <1>10 DEF Lose
    <3>2. wire[t].q = RequestOf(call[t], step[t], call[t].speech)
      BY <2>1, <3>1 DEF ContractInv, UploadInv, ThreadInv, RequestInv
    <3>3. Len(verdicts[t]) = step[t] - 1
      BY <1>0, <2>1, <3>1 DEF OrderInv
    <3>4. /\ Contract!AllCarriedOut(t) /\ Contract!MoreToAsk(t)
          /\ Contract!Asked(t) + 1 = step[t]
      BY <1>0, <2>1, <3>3, AskingFacts
    <3> QED  BY <3>1, <3>2, <3>4, SameService DEF Leaves, Contract!NextRequest
  <2> QED  BY <1>0, <1>1, <2>1, <2>2, FailShows DEF Return
<1>11. CASE Receive(t)
  <2>1. wire' = [wire EXCEPT ![t] = Text("whole", wire[t].code, wire[t].data)]
    BY <1>11 DEF Receive, Tails, Sheltered
  <2>2. /\ pc[t] = "wait" /\ wire[t].state = "reply"
        /\ pc' = [pc EXCEPT ![t] = "parse"]
        /\ UNCHANGED <<call, step, verdicts, ret, out, db, late>>
    BY <1>11 DEF Receive, shared
  <2>3. wire'[t].code = wire[t].code /\ wire'[t].data = wire[t].data
    BY <1>0, <2>1 DEF Text
  <2>4. DataInv(t)
    BY DEF ContractInv
  <2>5. DataInv(t)'
    BY <2>2, <2>3, <2>4 DEF DataInv, Answer, Post
  <2>6. Shows
    BY <1>0, <2>2, InsideShows DEF Steps
  <2> QED  BY <1>0, <2>2, <2>5, <2>6
<1>12. ~Gateway(t) /\ ~ParseCrashes(t)
  BY NoCrash DEF Gateway, Sheltered
<1> QED
  BY <1>2, <1>3, <1>4, <1>5, <1>6, <1>7, <1>8, <1>9, <1>10, <1>11, <1>12
     DEF Advance, Hear
-----------------------------------------------------------------------------

(* Nobody is in a call at first, and nothing has been asked.                *)
LEMMA InitContract == Init => ContractInv /\ Contract!Init
<1> SUFFICES ASSUME Init PROVE ContractInv /\ Contract!Init
  OBVIOUS
<1>1. UploadInv /\ DoneOrderInv
  BY InitUploadInv, InitReplies
<1>2. ContractInv
  BY <1>1 DEF Init, ContractInv, DataInv
<1>3. [t \in Thread |-> pc[t] # "idle"] = [t \in Thread |-> FALSE]
  BY DEF Init
<1>4. Contract!Init
  BY <1>3, SameService DEF Init, Contract!Init
<1> QED  BY <1>2, <1>4

(* A thread that a step leaves alone keeps its data.                       *)
LEMMA SameData ==
  ASSUME NEW u \in Thread, Same(u), DataInv(u), pc[u] # "dead"
  PROVE  DataInv(u)' /\ pc'[u] # "dead"
BY DEF Same, DataInv, Post

(* Every step of the calls is a step of the contract or shows nothing of    *)
(* it.                                                                      *)
LEMMA StepContract ==
  ASSUME Sheltered
  PROVE  ContractInv /\ [Next]_vars => ContractInv' /\ Shows
<1> SUFFICES ASSUME ContractInv, [Next]_vars PROVE ContractInv' /\ Shows
  OBVIOUS
<1>1. UploadInv'
  BY StepUploadInv DEF Sheltered, ContractInv
<1>2. DoneOrderInv'
  BY StepReplies DEF Sheltered, ContractInv, Readable
<1>3. ASSUME NEW t \in Thread, Invoke(t) \/ Advance(t) \/ Hear(t)
      PROVE  ContractInv' /\ Shows
  <2>1. /\ Shows /\ DataInv(t)' /\ pc'[t] # "dead"
        /\ out' = [u \in Thread |-> out'[u]]
    BY <1>3, ThreadShows
  <2>2. Moves(t)
    BY <1>3, NoCrash, ThreadMoves DEF ContractInv, DoneOrderInv, ReplyCodeInv
  <2>3. \A u \in Thread \ {t} : DataInv(u)' /\ pc'[u] # "dead"
    BY <2>2, SameData DEF Moves, ContractInv
  <2> QED  BY <1>1, <1>2, <2>1, <2>3 DEF ContractInv
<1>4. CASE ServeLate
  <2>1. PICK q \in late : /\ late' = late \ {q}
                          /\ \E a \in Answers(db, q) : db' = a.db
    BY <1>4 DEF ServeLate
  <2>2. UNCHANGED <<pc, call, step, wire, ret, out, verdicts>>
    BY <1>4 DEF ServeLate, local
  <2>3. \A u \in Thread : Same(u)
    BY <2>2 DEF Same
  <2>4. \E a \in Contract!Answers(db, q) : db' = a.db
    BY <2>1, SameAnswers
  <2>5. Contract!Arrive
    BY <2>1, <2>2, <2>4 DEF Contract!Arrive
  <2> QED  BY <1>1, <1>2, <2>2, <2>3, <2>5, SameData
              DEF ContractInv, Shows, Contract!Next
<1>5. CASE Tick \/ UNCHANGED vars
  <2>1. UNCHANGED <<pc, call, step, wire, ret, out, verdicts, db, late>>
    BY <1>5 DEF Tick, vars, local
  <2>2. \A u \in Thread : Same(u)
    BY <2>1 DEF Same
  <2>3. Shows
    BY <2>1 DEF Shows, InCall
  <2> QED  BY <1>1, <1>2, <2>1, <2>2, <2>3, SameData DEF ContractInv
<1> QED  BY <1>3, <1>4, <1>5 DEF Next

(* Every call of the code is a call of the contract: its requests reach    *)
(* the service at most once and in order, uploads are the callers'         *)
(* streams, and the code and the outputs it returns tell what the service  *)
(* has answered; whatever memory and connections do, for any number of     *)
(* threads.                                                                *)
THEOREM ClientImplementsContract ==
  ASSUME Sheltered
  PROVE  Spec => ImplementsContract
<1>1. Init => ContractInv /\ Contract!Init
  BY InitContract
<1>2. ContractInv /\ [Next]_vars => ContractInv' /\ [Contract!Next]_(Contract!vars)
  BY StepContract DEF Shows, InCall, Contract!vars
<1> QED
  BY <1>1, <1>2, PTL DEF Spec, ImplementsContract, Contract!Spec
=============================================================================
