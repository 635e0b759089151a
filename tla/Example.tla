------------------------------- MODULE Example -------------------------------
(***************************************************************************)
(* The example program (src/main.c) on top of what the SDK promises: it    *)
(* sets the parameters, replaces a speaker, reads a speech file            *)
(* (xvpr_aid_read_buffer of src/src/xbusiness_aid.c), cuts it down to its  *)
(* speech, enrols and recognises the speaker and releases everything.      *)
(*                                                                         *)
(* API calls are those of ApiContract.tla: the requests of calls that lost *)
(* their connection may arrive late.  Of xvpr_vad_detect_valid_speech it   *)
(* is known here that it returns no more samples than it was given         *)
(* (SilenceTrim.tla, Fits).                                                *)
(***************************************************************************)
EXTENDS XvprApi, ParamStore, FiniteSets

CONSTANTS
  Main,          \* the one thread
  Id, Speaker,   \* identifies and name
  Speech,        \* what it uploads: buffer[0 .. buf_len)
  Settings,      \* the <<key, value>> lists that setparam may be called with:
                 \* texts, but for "type" the number that atoi makes of one
  Defaults,      \* the parameters at the start
  Databases,     \* what the service may hold when the program starts
  FileSizes,     \* bytes of the file; -1: there is none
  Skip,          \* bytes before the samples: 50
  SizeMax,       \* SIZE_MAX: 2^64 - 1
  MemoryMax,     \* bytes that malloc may have at most
  MaxLate        \* bound: requests on their way whose call has returned

ASSUME ExampleAssumption ==
  /\ Thread = {Main} /\ Id \in Group /\ Speaker \in Name /\ Speech \in Recording
  /\ Databases \subseteq Database
  /\ \A s \in Settings :
       /\ Len(s) \in Nat /\ DOMAIN s = 1 .. Len(s)
       /\ \A i \in DOMAIN s :
            IF s[i][1] = "type" THEN s[i][2] \in Int ELSE s[i][2] \in Seq(ParamChar)
  /\ DOMAIN Defaults = TextParams \cup {"type"} /\ Defaults["type"] \in -128 .. 127
  /\ \A key \in TextParams :
       Defaults[key] \in [1 .. ParamSize[key] -> ParamChar \cup {ParamNul}]
  /\ FileSizes \subseteq Nat \cup {-1}
  /\ Skip \in Nat /\ SizeMax \in Nat /\ MemoryMax \in Nat /\ MaxLate \in Nat
  /\ \A n \in FileSizes : n <= MemoryMax
  /\ 2 * MemoryMax < SizeMax - Skip

VARIABLES
  pc,                     \* what main does next, "exit" or "dead"
  exit,                   \* the exit code
  settings, set,          \* what it sets, and how many are set
  params,                 \* xvpr_param_...
  file,                   \* the size of the file
  buffer, valid_buffer,   \* "null", "live", "freed" or "freed_twice"
  buf_len,
  library,                \* whether libcurl is set up
  busy, call, verdicts, ret, out, db, late,   \* the calls: ApiContract
  deletedLate             \* history: a late request deleted the speaker

api == <<busy, call, verdicts, ret, out, db, late>>
memory == <<buffer, valid_buffer, buf_len>>
vars == <<pc, exit, settings, set, params, file, memory, library, api,
          deletedLate>>

Api == INSTANCE ApiContract

(* The statements of main, in their order.                                 *)
Script == <<"init", "setparam", "remove_person", "create_person", "get_info",
            "read", "create_vad", "detect", "add_speech", "register_person",
            "verify_person", "identify_person", "release", "release_valid",
            "cleanup", "exit">>

Behind(step) ==
  LET i == CHOOSE i \in DOMAIN Script : Script[i] = step IN Script[i + 1]

Proceed == pc' = Behind(pc) /\ UNCHANGED exit

GiveUp == pc' = "exit" /\ exit' = -1

Die == pc' = "dead" /\ UNCHANGED exit

Init ==
  /\ pc = "init" /\ exit = 0
  /\ settings \in Settings /\ set = 0 /\ params = Defaults
  /\ file \in FileSizes
  /\ buffer = "null" /\ valid_buffer = "null" /\ buf_len = 0
  /\ library = FALSE
  /\ busy = [t \in Thread |-> FALSE] /\ call = [t \in Thread |-> NoCall]
  /\ verdicts = [t \in Thread |-> << >>]
  /\ ret = [t \in Thread |-> NoCode] /\ out = [t \in Thread |-> NotWritten]
  /\ db \in Databases
  /\ late = {} /\ deletedLate = FALSE
-----------------------------------------------------------------------------
GlobalInit ==
  /\ pc = "init"
  /\ \/ library' = TRUE /\ Proceed
     \/ library' = FALSE /\ GiveUp
  /\ UNCHANGED <<settings, set, params, file, memory, api, deletedLate>>

(* The result of setparam is not looked at.                                *)
SetParam ==
  /\ pc = "setparam"
  /\ IF set = Len(settings)
     THEN Proceed /\ UNCHANGED <<set, params>>
     ELSE /\ set' = set + 1
          /\ params' = Set(params, settings[set'][1], settings[set'][2])
          /\ UNCHANGED <<pc, exit>>
  /\ UNCHANGED <<settings, file, memory, library, api, deletedLate>>

MainCall == [op |-> pc, handle |-> ClientInit(Id), name |-> Speaker,
             speech |-> IF TakesSpeech(pc) THEN Speech ELSE Empty]

CallBegins ==
  /\ pc \in API /\ ret[Main] = NoCode
  /\ Api!Begin(Main) /\ call'[Main] = MainCall
  /\ UNCHANGED <<pc, exit, settings, set, params, file, memory, library,
                 deletedLate>>

CallAsks ==
  /\ Api!Ask(Main)
  /\ UNCHANGED <<pc, exit, settings, set, params, file, memory, library,
                 deletedLate>>

CallReturns ==
  /\ \/ Api!Succeed(Main) \/ Api!PassOnRefusal(Main)
     \/ Api!Fail(Main) \/ Api!ConnectError(Main)
  /\ Cardinality(late') <= MaxLate
  /\ UNCHANGED <<pc, exit, settings, set, params, file, memory, library,
                 deletedLate>>

LateArrives ==
  /\ Api!Arrive
  /\ deletedLate' = (deletedLate \/ <<Id, Speaker>> \in db.persons \ db'.persons)
  /\ UNCHANGED <<pc, exit, settings, set, params, file, memory, library>>

(* Variant: the result of the registration is not looked at either.        *)
IgnoredOfThree == {"remove_person", "create_person", "register_person"}

(* if (XVPR_CODE_SUCCESS != ret) return -1, but for the first two calls.   *)
Ignored == {"remove_person", "create_person"}

AfterCall ==
  /\ pc \in API /\ ~busy[Main] /\ ret[Main] # NoCode
  /\ IF ret[Main] = XVPR_CODE_SUCCESS \/ pc \in Ignored THEN Proceed ELSE GiveUp
  /\ ret' = [ret EXCEPT ![Main] = NoCode]
  /\ UNCHANGED <<settings, set, params, file, memory, library, busy, call,
                 verdicts, out, db, late, deletedLate>>
-----------------------------------------------------------------------------
(* The samples that the file has behind its header.                        *)
Samples == IF file < Skip THEN 0 ELSE (file - Skip) \div 2

(* Variant: the length in bytes.                                           *)
LengthOfBytes == (file - Skip) % (SizeMax + 1)

(* (ftell(f) - skip_bits)/2, unsigned; -1 without a file.                  *)
LengthOf == IF file = -1 THEN SizeMax ELSE ((file - Skip) % (SizeMax + 1)) \div 2

Malloc(n) == IF (2 * n) % (SizeMax + 1) > MemoryMax THEN {"null"}
                                                    ELSE {"null", "live"}

(* xvpr_aid_read_buffer, and "buf_len <= 0".  fread into no memory dies    *)
(* if there is anything to read.                                           *)
ReadBuffer ==
  /\ pc = "read"
  /\ buf_len' = LengthOf
  /\ buffer' \in IF file = -1 THEN {buffer} ELSE Malloc(LengthOf)
  /\ IF buffer' = "null" /\ Samples > 0 THEN Die
     ELSE IF buf_len' = 0 THEN GiveUp ELSE Proceed
  /\ UNCHANGED <<settings, set, params, file, valid_buffer, library, api, deletedLate>>

(* xvpr_vad_create_vad returns the address of a local variable, which      *)
(* compilers are free to make NULL.                                        *)
CreateVad ==
  /\ pc = "create_vad"
  /\ Proceed \/ GiveUp
  /\ UNCHANGED <<settings, set, params, file, memory, library, api, deletedLate>>

(* xvpr_vad_detect_valid_speech reads buf_len samples and may have no      *)
(* memory for what it keeps of them.                                       *)
Detect ==
  /\ pc = "detect"
  /\ valid_buffer' \in Malloc(buf_len)
  /\ IF buffer = "null" THEN Die /\ UNCHANGED buf_len
     ELSE \E n \in 0 .. buf_len :
            /\ buf_len' = n
            /\ IF n = 0 THEN GiveUp
               ELSE IF valid_buffer' = "null" THEN Die ELSE Proceed
  /\ UNCHANGED <<settings, set, params, file, buffer, library, api, deletedLate>>

Free(b) == IF b = "null" THEN b ELSE IF b = "live" THEN "freed" ELSE "freed_twice"

(* Variant: the first buffer again.                                        *)
ReleaseFirstTwice ==
  /\ pc \in {"release", "release_valid"}
  /\ buffer' = Free(buffer)
  /\ UNCHANGED valid_buffer
  /\ Proceed
  /\ UNCHANGED <<settings, set, params, file, buf_len, library, api, deletedLate>>

(* xvpr_aid_release_buffer frees what is not NULL.                         *)
Release ==
  /\ pc \in {"release", "release_valid"}
  /\ buffer' = IF pc = "release" THEN Free(buffer) ELSE buffer
  /\ valid_buffer' = IF pc = "release" THEN valid_buffer ELSE Free(valid_buffer)
  /\ Proceed
  /\ UNCHANGED <<settings, set, params, file, buf_len, library, api, deletedLate>>

Cleanup ==
  /\ pc = "cleanup"
  /\ library' = FALSE
  /\ Proceed
  /\ UNCHANGED <<settings, set, params, file, memory, api, deletedLate>>

Next == \/ GlobalInit \/ SetParam
        \/ CallBegins \/ CallAsks \/ CallReturns \/ AfterCall
        \/ ReadBuffer \/ CreateVad \/ Detect \/ Release \/ Cleanup
        \/ LateArrives

Spec == Init /\ [][Next]_vars
-----------------------------------------------------------------------------
(* What the variables hold.                                                *)
TypeOK ==
  /\ pc \in {Script[i] : i \in DOMAIN Script} \cup {"dead"}
  /\ exit \in {0, -1}
  /\ settings \in Settings /\ set \in 0 .. Len(settings)
  /\ DOMAIN params = TextParams \cup {"type"} /\ params["type"] \in -128 .. 127
  /\ \A key \in TextParams :
       params[key] \in [1 .. ParamSize[key] -> ParamChar \cup {ParamNul}]
  /\ file \in FileSizes
  /\ {buffer, valid_buffer} \subseteq {"null", "live", "freed", "freed_twice"}
  /\ buf_len \in 0 .. SizeMax
  /\ library \in BOOLEAN /\ deletedLate \in BOOLEAN
  /\ call[Main] \in Call \cup {NoCall}
  /\ db \in Database
  /\ late \subseteq Request

(* The program that ends well has enrolled and trained its speaker with    *)
(* the speech it read, whatever the service held before and whatever       *)
(* became of the calls it takes no notice of; but a deletion it gave up    *)
(* waiting for may still undo it all.                                      *)
GoodEndIsEnrolled ==
  pc = "exit" /\ exit = 0 =>
    \/ Speech \in db.models[<<Id, Speaker>>]
    \/ deletedLate

(* What is uploaded has been read from the file: neither the wrapped       *)
(* length of a file that is too short, nor the -1 of one that is missing,  *)
(* gets past the detection.                                                *)
UploadIsOfTheFile ==
  pc \in API /\ TakesSpeech(pc) => buffer = "live" /\ buf_len \in 1 .. Samples

(* The program that ends well has freed all it was given, once.            *)
GoodEndFreesAll ==
  /\ pc = "exit" /\ exit = 0 => /\ "live" \notin {buffer, valid_buffer}
                                /\ ~library
  /\ "freed_twice" \notin {buffer, valid_buffer}

(* Every call finds the parameters as they were set last, if the value     *)
(* leaves room for the terminator, and only then.                          *)
LastSetting(key) ==
  LET S == {i \in DOMAIN settings : settings[i][1] = key}
  IN  CHOOSE i \in S : \A j \in S : j <= i

ParamsInForce ==
  pc \in API =>
    \A i \in DOMAIN settings :
      LET key == settings[i][1]
          value == settings[i][2]
      IN  key \in TextParams /\ i = LastSetting(key) =>
            (ReadsAs(params[key], value) <=> Len(value) < ParamSize[key])
=============================================================================
