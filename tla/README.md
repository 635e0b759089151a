# A verification project for the CSDK voiceprint SDK

The repository is the C SDK of a voiceprint platform ("xbusiness-vpr"): a small
library (`src/src/`, about 1200 lines) that posts speech and requests to a web
service over libcurl, reads its JSON replies with json-c, and offers two
helpers for speech: a real-time endpoint detector and a function that trims
silence. The rest of the repository is vendored code (`src/curl`, `src/json`),
prebuilt libraries, and the example program `src/main.c`. Of the vendored code,
what the SDK runs through is modelled too: one `curl_easy_perform` of a POST
from the easy interface to the socket, and the parser of json-c.

The modules here model that library: its state as variables, one action per
step of a function that other threads, the network or a failure can come
between, and the properties that its callers rely on. TLC checks them on small
instances; TLAPS proves the most important ones for every value of the
constants.

## 1. The system

| Component | State it keeps | Operations | Interacts with |
|---|---|---|---|
| Receive buffer and write callback (`xbusiness_misc.c/.h`) | `str`, `len`, `size` of one transfer | `_recive_data_from_http_api` | called back by libcurl, read by the API function |
| API functions (`xbusiness_vpr.c`) | per call: buffer, temporary file, connection, reply; shared: the files in `./xbusiness-vpr/`, the clock, the service's database | `xvpr_client_init` and ten functions that post one or two requests | libcurl, json-c, the file system, the service, each other through file names |
| Reading of replies (`xbusiness_vpr.c`, json-c) | none | parse, get field, get value | two different json-c builds, one per platform |
| Voiceprint service (external) | persons, their speeches, their models | nine kinds of post | the API functions |
| Global state (`xbusiness_vpr.c`, `curl/lib/easy.c`) | `g_init_state`, libcurl's `initialized`, what libcurl has set up | `xvpr_global_init`, `xvpr_global_release`, `curl_easy_init` | every API function |
| Endpoint detection (`xbusiness_vad.c`) | `total_sil_buffers`, `total_voice_buffers` | create, is_speaking, reset | fed with frames by the caller |
| Silence trimming (`xbusiness_vad.c`) | `win_buf`, `j`, `p`, the last three samples, the output | `xvpr_vad_detect_valid_speech` | its result is what callers upload |
| Parameter store (`xbusiness_vpr.c`) | seven static strings | `xvpr_global_setparam` | read by every API function |
| Speech file helpers (`xbusiness_aid.c`) | none | read, write, release | API functions, example program |
| Example program (`main.c`) | handle, buffers | one call of everything, in order | all of the API |
| Bundled json-c (`json/src`) | the tokener's stack, nodes with reference counts, hash tables | `json_tokener_parse`, `json_object_object_add`, `json_object_object_get`, `json_object_put` | parses what the callback left in its buffer |
| Vendored libcurl (`curl/lib`) | `data->mstate`, `struct SingleRequest`, the connection, the chunked decoder | `curl_easy_perform` | sends the request, calls the callback, ends with a `CURLcode` |

### What is hard here

* **Threads.** `main.c:42` asks for a handle of its own per thread, and nothing
  else. Yet calls of different threads meet in temporary files, whose names are
  made of a kind, a name (or a group) and `time(NULL)`; the file is opened,
  filled, closed and read again in separate steps.
* **Two requests in one call.** `xvpr_remove_person` and `xvpr_update_person`
  post twice; the second may fail after the first has been carried out.
* **The network.** A connection may break before, while or after the service
  acts; a request may arrive when its sender has long given up; a reply may
  come in pieces or from a gateway. No function sets `CURLOPT_TIMEOUT`.
* **The callback** is called any number of times, grows its buffer, and may run
  out of memory in the middle.
* **Two json-c builds** differ in what a text that is no object does to the
  reader: the process dies, or every field reads as absent.
* **Two counters for a history.** The detector decides about an utterance from
  two counters, one of which also counts the silence before the speech. A
  created handle never sets them, and it points into a dead frame of the stack:
  any function that is called later may write over them.
* **A protocol inside a call.** A form is sent with `Expect: 100-continue`: a
  timer, the readiness of the socket, an interim answer and an early refusal
  race for what is sent next, while a connection may end at any byte of a
  header, of a chunk or of a chunk's size.
* **Anything may be parsed.** The text ends, or goes wrong, at any depth; every
  node made so far must be freed once, and a name may come twice.
* **Strings in static arrays** are copied and read cell by cell, without a lock.
* **A program that goes on.** `main.c` passes over two results, and what a call
  gave up waiting for may still arrive behind later calls.
* **One pass that takes back.** The trimming loop writes samples and undoes the
  last three when a fourth equal one arrives, with one index into a fixed buffer.

### What makes each part correct

* Buffer: nothing is written beyond what is allocated; a NULL that a failed
  `realloc` leaves is never used; what is parsed belongs to this response.
* API functions: a success means that the service carried out all the requests
  of the call; a code of the service is one the service gave to this call; an
  upload is the stream of the caller, and a speech is only ever enrolled for
  the person it was recorded for; a call returns.
* Global state: libcurl is set up whenever it is used, and one release undoes
  any number of initialisations.
* Parameters: a text that is formatted is the value that was set, if nobody
  sets it meanwhile; if somebody does, it is made of the two and ends.
* Transfer: success means the whole body, if the reply says where the body
  ends; a service that refuses is not sent more; the transfer ends.
* Parser: the result is the first value of the text or nothing, the references
  are the owners, every lookup ends.
* Example: a program that ends well has enrolled its speaker with what it read
  from the file, and freed what it was given once.
* Detection: an end is announced only to somebody who has spoken and then been
  silent long enough. The code does not keep that. What it keeps: from a reset
  or an announced end on, and as long as nothing writes over the counters, they
  mean what they should, and ends are announced on exactly the frames that are
  one behind a due end.
* Trimming: the result is the filter that one would write down, it fits in the
  memory it was given, and the function returns.

## 2. Modules

```
CurlReturn <-+- HttpReceive  <- MCHttpReceive        HttpReceiveProofs
             +- HttpTransfer <- MCHttpTransfer       HttpTransferProofs  (implements HttpReceive)
Linkhash <- JsonTokener <- JsonGrammar <- MCJsonTokener  JsonTokenerProofs
VoiceprintServer <- XvprApi <-+- ApiContract
JsonReply <-------------------+- XvprClient <- MCXvprClient
                              |                      XvprClientProofs
ParamStore <-----+------------+- Example <- MCExample  ExampleProofs  (a client of ApiContract)
GlobalState <----+- GlobalParams <- MCGlobalState    GlobalProofs
Utterance <-+
Samples  <--+- Vad <- MCVad                          VadProofs
Samples <- SilenceTrim <- MCSilenceTrim              SilenceTrimProofs
```

**CurlReturn, HttpReceive.** `CurlReturn` is `struct curl_return_str` and one
call of the callback as operators on a record; memory is a sequence of cells, a
NULL pointer the empty sequence, and cells that `realloc` adds are `Junk` until
written. `HttpReceive` is one transfer: `Deliver` with any chunk that libcurl
may choose, `DeliverNoMemory` when `realloc` fails, `Break`, `Finish`.

**HttpTransfer.** What `HttpReceive` takes for granted of libcurl, from the
source of libcurl 7.37.0: `curl_easy_perform` drives a multi handle through the
states of `multi_runsingle`; `Curl_readwrite` makes passes that read, write and
check; `http.c` takes the header line by line, and the chunked decoder the body.
The service is a script of tokens (a header line, a chunk's size, a byte) that
it sends in time or early and cuts off anywhere. `ServiceAssumption` says which
scripts: a header of a status and lines that ends with a blank line, perhaps
behind an interim one, then any tokens at all; and that `framed` and `body` are
what that script stands for by HTTP: the chunks up to the first wrong or empty
one, nothing for a 204 or a 304, what `Content-Length` says, or what comes until
the connection ends. The scripts that the run enumerates satisfy it.

| Actions | Code |
|---|---|
| `Start`, `Connect`, `Do`, `Done`, `Complete`, `Return` | `easy_perform`, `multi_runsingle`, `Curl_http_done` |
| `Read`, `ReadEnd`, `ReadError` | the read half of `Curl_readwrite`, `readwrite_data` |
| `HeaderLine`, `InterimEnd`, `HeaderEnd` | `Curl_http_readwrite_headers` |
| `Plain`, `ChunkData`, `ChunkLine`, `ChunkError` | `readwrite_data`, `Curl_httpchunk_read`, `Curl_client_write` and the callback of the SDK |
| `Send`, `SendError`, `Expire`, `PassEnds` | `readwrite_upload`, the timer of `Expect`, the checks at the end of a pass |

It implements `HttpReceive` with `sent` the bytes that were delivered and
`body` what a reply stands for: all chunks the callback sees make up that body.

**Linkhash, JsonTokener, JsonGrammar.** `Linkhash` is the open-addressed table of json-c
with its markers and its list. `JsonTokener` is `json_tokener_parse_ex`, one
action per turn of its loop on one lexical unit, on a stack of levels; nodes
live in a heap with their reference counts. The code gives references up by
recursion over the nodes (`json_object_put`, `lh_table_free`,
`array_list_free`); what that comes to is one step here: `Freed` is the least
set of nodes that lose all their references to the levels and to each other,
and `Puts` takes from every node what it loses. It stands behind the cases that
`JsonReply` distinguishes. `JsonGrammar` states what the tokener should return:
`Nested(s)[h][i]` is the value of at most `h` levels that the text `s` has at
the position `i`, with the position behind it, `Lists` are the beginnings of an
array or object at a position, and `Meaning(h)[n]` is the value that the node
`n` stands for. They are functions of numbers and not recursive operators, so
that the tokener can be proved to return `FirstValue`. `TokenerAssumption` says
of the units that no name or atom is one of the marks.

**VoiceprintServer.** The service is not in the repository. Its database and
answers are modelled from what the SDK sends, the fields it reads and the table
of codes in `xbusiness_vpr.h:75-106`. `Answers(db, q)` is the set of all that
the service may do: refuse for a reason it has, be out of order, or carry the
request out. Where the SDK leaves it open (whose speech a checksum deletes,
whether an empty result of a find is a success) every choice is in the set.

**JsonReply.** What an API function gets from `json_tokener_parse`,
`json_object_object_get` and `json_object_get_<type>` for a whole reply, for a
tail that is an object itself, and for any other text, in both builds.

**XvprApi, XvprClient.** `XvprApi` says which requests a function stands for,
what a request contains and what is written to the output parameters. In
`XvprClient` every thread goes through the steps of its call:

| Step (`pc`) | Actions | Code |
|---|---|---|
| idle | `Invoke` | entry of a function |
| enter | `Allocate`, `AllocateFails` | `calloc`, `curl_easy_init` |
| open, fill | `OpenTemp`, `OpenTempFails`, `FillTemp` | `xvpr_aid_write_buffer` |
| perform | `Send`, `ConnectFails` | first half of `curl_easy_perform`; the file is read here |
| wait | `Serve`, `Receive`, `Lose`, `Gateway` | second half |
| parse | `ParseAndReturn`, `ParseAndGoOn`, `ParseCrashes` | the rest of the function |

`ServeLate` is a request whose sender has given up, `Tick` is the clock.
What `HttpReceive` shows about replies in several pieces enters here as the
operator `Tails`.

**ApiContract.** The abstract specification of the API: a call puts its
requests to the service in order, each at most once, each only after the one
before was carried out, with the caller's own stream; and it ends with a code
that tells what became of them. No buffers, files, connections or texts. After
a connection error the latest request may still be on its way (`late`) and be
carried out at any time after (`Arrive`).
`XvprClient` implements it with `busy[t] = (pc[t] # "idle")`.

**GlobalState.** `xvpr_global_init`, `xvpr_global_release`, and the part of
`curl/lib/easy.c` they drive. Reading and writing libcurl's counter are
separate steps, because there is no lock. The global functions run while no
other thread is in the SDK, as libcurl's manual demands; the release comes
last, as `xbusiness_vpr.h:140` demands. Further initialisations, and API calls
without one, are allowed although `xbusiness_vpr.h:128` asks for exactly one:
the flag and libcurl's own check exist for them.

**ParamStore, GlobalParams.** `ParamStore` is `xvpr_global_setparam` as an
operator. `GlobalParams` composes `GlobalState` with one parameter: `CallSet`,
`CopyCell` and `SetReturns` are a thread in `strncpy`, `FormatCell` is a call in
`sprintf("%s")`, `LibraryStep` a step of `GlobalState`. A history variable
`seen` holds the values that were in force or being set while a call formats.

**Example.** `main.c` statement by statement, as a client of `ApiContract`
(`INSTANCE`): whatever the contract allows a call to do may happen, and what a
call that lost its connection leaves behind may arrive (`LateArrives`, the
contract's `Arrive`).
`xvpr_aid_read_buffer` computes in unsigned numbers modulo `SizeMax + 1`.

**Utterance, Vad.** `Utterance` says when the end of an utterance is due, on
sequences of voiced and silent frames and by the comments at
`xbusiness_vad.c:138` and `:140`: at least `SilBuffers` silent frames in a row,
and with the voiced ones at least `TotalBuffers`. It knows no counters and none
of the code's comparisons. `Vad` is the code. `xvpr_vad_create_vad` returns the
address of a local variable, so a handle is `"null"` (what compilers make of
it) or `"frame"`, memory that is not its own:

| Actions | Code |
|---|---|
| `CreateVad`, `ResetVad` | `xvpr_vad_create_vad`, `xvpr_vad_reset_vad` |
| `IsSpeaking`, `Count`, `AnnounceEnd`, `GoOn` | the steps of `xvpr_vad_is_speaking`: weigh the frame, count, decide |
| `Overwrite` | another frame of the stack lies where the counters are, between any two steps, that of `get_buffer_mean` and the caller's included |
| `Die` | the handle is NULL, or a write through it hits a return address |

Two history variables tell what should have been: `heard` is how the frames
sound by their samples alone (`Loud`), not what the code takes them for; `known`
says that a reset or an end has set the counters, that nothing has written over
them since, and that no frame was at full scale.

**SilenceTrim.** One action per block that is weighed and per sample that is
scanned. The two copies of the loop in the C function are the same actions on
blocks of different lengths.

## 3. Runs

`tlc -config <cfg> <module>`; all finish in about two minutes or less, the
largest (`client_threads`, 2.2 million states with the refinement;
`global_state`, 2.4 million; `vad`, 1.3 million; `http_transfer`, 278,000 with
liveness) included.

| Run | Question | Bounds |
|---|---|---|
| `http_receive` | Is the callback safe, and what is parsed, for every way to cut a body, with `realloc` failing anywhere? | bodies of up to 4 bytes of 2 letters, a buffer of 2: chunks fit, just do not fit, and grow twice |
| `http_receive_whole` | Is the whole body parsed? **No** | as above |
| `http_transfer` | Does `curl_easy_perform` deliver the body it says it delivers, stop sending when refused, and return? Does it implement `HttpReceive`? | a short request and a form in two parts; bodies of up to three bytes, framed by a length, by chunks or by the end of the connection; 200, 204 and 417, with and without an interim 100, early or in time; too many, too few and missing bytes, a chunk's size off by one; cut at every token |
| `json_tokener` | Is the result the first value, are the references the owners, does parsing end? | every text of up to three units; objects of up to four fields out of three names, two of which collide, in tables of three slots; all pairs of six kinds of values in objects and arrays; each whole, cut at every unit, or with one unit replaced |
| `client_solo` | One thread, any five calls of any function, and everything may fail: do codes tell the truth, do posts keep their order, does every call return? | five calls are enough to create, enrol, train, and then verify or remove; one recording and a damaged file make two speeches, more than the one that `Reserve = 1` keeps; one late request; bundled json-c |
| `client_threads` | Two threads in one group, each with a person of its own: do uploads, enrolments and outputs stay apart while the clock moves, connections break and requests come late? Do the calls implement the contract? | two recordings, so that mixing them up shows; two calls each of create, add, remove speech, remove person, update: calls of one request and of two; one late request, from either half of a call, that arrives behind later calls of both threads |
| `client_same_group` | Is an upload the caller's stream when two threads identify in one group? **No** | two calls each |
| `global_state` | Is libcurl set up when used, and freed by one release? What does a call format while another thread sets the parameter? | three threads, three initialisations, four API calls, set-up may fail; an array of four characters, values shorter and longer than the default, set twice |
| `example` | Has a program that ends well enrolled its speaker, uploaded what it read, and freed everything? Are parameters what was set? | five databases: nobody, the speaker, with an old speech, with a model, with the new speech; files of -1 (none), 0, 1, 2, 3 and 6 bytes around a header of 2; values that are shorter, full and too long; one late request |
| `vad` | Do the counters stand for the history while nobody writes over them, and are ends announced exactly one frame behind a due one? | the code's thresholds 3, 6 and 350; frames at, above and below the threshold, negative, empty, nearly and at full scale; 10 frames per utterance, so that ends by either bound occur; 0, 4 and `SizeMax` written over either counter at any time |
| `vad_heard` | Is every announced end the end of something that was said? **No** | as above |
| `silence_trim` | Is the output the filter, does it fit, does the function return? | every stream of up to 8 samples of -9, 0, 1, blocks of 5: runs of four and five in a block, runs across blocks, leading zeros, loud and quiet blocks, every length of rest |

`CHECK_DEADLOCK FALSE` everywhere: calls, frames and initialisations are
bounded, transfers, parsing, trimming and the example end, and a process may
have died. That nothing else stops is what `CallReturns`, `TransferEnds`,
`ParseReturns` and `Returns` say. The types of `HttpTransfer` and `Example` have
no run: they are proved.

**Why these bounds are enough.** Two threads are enough for a file that is
shared by its name: the interference is between one writer and one reader. The
proofs below remove the bounds for all properties but the ones listed as only
model-checked.

**Fairness.** In `XvprClient` each thread has weak fairness for what its call
does by itself (`Advance`) and for hearing from the connection (`Hear`). The
first is the scheduler; the second is an assumption on the network, that a
request is answered or its connection breaks, because the code has no timeout
of its own. Without it no call need return. There is none for `Invoke`,
`ServeLate` and `Tick`. In `HttpTransfer` libcurl's loop (`Client`) and the
service (`Service`) are weakly fair, each as a whole: the loop is one thread,
and a service that may answer or close does one of them in the end. Breaking is
never forced: `HttpReceive` has fairness for what goes on without a break, and
`HttpTransfer` implements that fairness too. `JsonTokener` and `SilenceTrim` are
sequential and have weak fairness of `Next`. `Vad`, `GlobalParams` and `Example`
have none and no liveness property.

## 4. Proofs

All proofs are for every value of the constants: any number of threads,
persons, recordings, calls, any size of buffer, any frames and thresholds.

| Theorem | Says | Assumes beyond the modules' own ASSUMEs |
|---|---|---|
| `HttpReceiveProofs!TypeCorrect`, `BufferIsSafe`, `NullIsNotUsed`, `ParsedTextIsATail` | the callback stays in its buffer, a NULL is not used, and what is parsed is a tail of this body | |
| `XvprClientProofs!TypeCorrect` | types | `OwnFiles`, `WriteFaults = {}` |
| `HttpTransferProofs!TypeCorrect`, `SuccessIsTheWholeReply`, `SuccessHasAnAnswer` | types; a transfer that succeeds has delivered the whole of a framed body, and something of an answer has come | |
| `HttpTransferProofs!RefusedBodiesStay` | a service that refuses, on a connection that stays, is sent no more (an action property) | |
| `HttpTransferProofs!TransferIsAReceive`, `CallbackIsSafe` | every transfer is a behaviour of `HttpReceive` without its fairness; so the buffer is safe under libcurl's own cuts | |
| `XvprClientProofs!UploadsAreTheStreams`, `SpeechesAreEnrolledAsGiven` | uploads are the callers' streams; nobody gets a speech that was not recorded for him, late requests included | `OwnFiles`, `WriteFaults = {}` |
| `XvprClientProofs!CodesAreTheServices` | a code of the service's own is the service's refusal of this call's last request | |
| `XvprClientProofs!SuccessIsDone`, `PostsAreInOrder` | success means that every request was carried out; the second is made only after the first was | `Readable` |
| `XvprClientProofs!OutputsAreTheCallers` | output parameters are written by successes only, and the checksum of an added speech is that of the caller's stream | `Readable`, `OwnFiles`, `WriteFaults = {}` |
| `XvprClientProofs!ClientImplementsContract` | `XvprClient` implements `ApiContract` | `Sheltered` |
| `GlobalProofs!TypeCorrect`, `ReadyWhenUsed`, `ReleaseIsEnough` | libcurl is set up when it is used, and one release frees it | |
| `GlobalProofs!TextsAreOfTheirValues` | a text is made of the values in force while it was formatted, and is long enough | |
| `VadProofs!TypeCorrect`, `CountersStandForTheHistory` | types; the counters are the number of voiced frames and the length of the last silence, while they are known | |
| `VadProofs!EndsAreOneFrameLate`, `AnswersAreTheEnds` | the strict comparisons delay a due end by one silent frame, never by more; 0 is returned on exactly those frames, while the counters are known | |
| `VadProofs!KnownEndsAreHeard` | what `vad_heard` refutes holds of announcements that are made while the counters are known | |
| `SilenceTrimProofs!TypeCorrect`, `OutputFits` | indices stay in range, `win_buf` and the output are large enough | |
| `SilenceTrimProofs!TrimmingIsTheFilter` | what is returned is the filter, for every stream and every length of block | |
| `JsonTokenerProofs!ObjectAddGood` | `json_object_object_add` keeps a table searchable: it has the new value and the other fields as before, in their order, the new one last | |
| `JsonTokenerProofs!TypeCorrect`, `TablesCorrect` | the tokener stays in its text and on its stack; lookups in every object end and find | |
| `JsonTokenerProofs!ResultIsRight` | for a text without comments the result is the value that the text begins with; with an error, it begins with none and there is no result | |
| `JsonTokenerProofs!CountsAreRight` | reference counts count the references, and nothing but the result and its contents is left | |
| `ExampleProofs!TypeCorrect`, `UploadsAreOfTheFile` | types; what is uploaded was read from the file, whatever its length | |
| `ExampleProofs!EndsEnrolled` | a program that ends well has enrolled its speaker, unless a late deletion undid it | |
| `ExampleProofs!EndsFreeAll`, `ParamsAreInForce` | everything is freed once; calls find the parameters as they were set last | |

`Readable` is `JsonBuild = "bundled" \/ ReplyFaults = {}`: the build that ends
the process rather than read a field of what is no object, or replies that
arrive whole. `Sheltered` is `OwnFiles`, files that can be written, whole
replies, and finds that find somebody: each of the four has a counterexample
without it.

* **Buffer.** `IInv` adds to the safety properties that the buffer holds the
  latest chunk, terminated (`HoldsLatestChunk`), and that parsing starts at the
  end of the body. Safety alone is not inductive for `ParsedIsTail`: one has to
  know which bytes are in the cells.
* **Uploads.** `UploadInv` follows a call from the opening of its file to the
  upload: the path is its own, the file is empty, then holds the stream, and
  the request on the wire is the one of the call; for late requests, that their
  upload was given for their person. `OwnFiles` says that no two threads can
  form the same path; `client_same_group` shows what happens otherwise. It
  makes every other thread's write miss the file. `WriteFaults = {}` excludes
  files that cannot be written, whose result the code ignores. What the service
  does to its database is isolated in the lemma `AnswersAreSound`.
* **Codes and order.** The properties speak of a call that has returned; the
  invariant speaks of every thread at every step. `ReplyInv` says that a whole
  answer on the wire is the last verdict of this call, `CodeInv` what the
  returned code comes from, `OrderInv` that there are as many verdicts as steps
  or one less and all but the last are successes, `DoneInv` what success
  implies. They need no type invariant of the rest and therefore no `OwnFiles`:
  only that `pc`, `step`, `ret`, `call`, `wire` and `verdicts` are functions on
  the threads (`Shape`). One lemma per action says what the thread does to its
  own part (`...Moves`); `SameKeeps` is all the other threads need.
* **Contract.** `ContractInv` joins the two invariants above and adds what the
  answer's data are (`DataInv`). One lemma per action says which step of the
  contract it is: `Invoke` is `Begin`, `Serve` is `Ask`, the four returns are
  `Succeed`, `PassOnRefusal`, `Fail` and `ConnectError`, which also takes the
  request that `Lose` leaves on its way; `ServeLate` is `Arrive`; all other steps
  show nothing. `UploadInv` says that the request on its way is the one the
  contract would ask next. What a caller reads in its output parameters is in the proof through
  `out`.
* **Global state.** `IInv` says who may be where: a thread between reading
  libcurl's counter and writing it is alone (`Excluding`, `Alone`), the counter
  is what the flag and the set-up make it (`Counted`), and set-up happens once
  (`SetUpOnce`). `ReadyInUse` alone says nothing of a thread that is about to
  use its handle.
* **Parameters.** `PInv` says that every cell is of the value that is in force
  or of the one that is being copied, with the border at `copied` (`CellOf`),
  and that a call has `seen` both (`Seen`). A border that moves while another
  thread reads is what makes the torn texts, and why they still end.
* **Detector.** The memory of the handle may be written over between any two
  steps, so every part of `IInv` but the types speaks of `known` counters.
  `BeforeCounting` says that within a call they stand for the frames before, and
  that the code takes the newest one for what it sounds like (`MeansTell`: a mean
  cut to an integer exceeds the threshold if and only if the sum does);
  `BeforeDeciding` that the frames before end with some silence; `Prompt` that no
  due end has been followed by a silent frame, but for the one that is being
  decided about. That needs the decision to be exactly `DueOneFrameAgo`
  (`DecisionIsOneFrameLate`), which joins strict bounds on the counters to weak
  ones on the frames. The rest are lemmas on what appending a frame does to the
  number of voiced ones and to the silence at the end.
* **Trimming.** The invariant relates `j`, `p` and the samples looked at;
  `p <= j` and `j <= k` do the work.
* **The filter.** The output alone says nothing of a block that is being
  scanned: `win_buf` holds samples that the fourth of a run will take back.
  `SpeechInv` says that `out` is the speech of the blocks before, and that
  `win_buf` holds the filter of the samples so far under the runs that have been
  seen so far (`Scanned`). A sample that ends no run is kept for the time being
  (`ScanKeeps`); one that ends a run drops what was kept of it (`ScanTakesBack`);
  behind the last sample every run has been seen (`ScanEnds`).
* **Transfer.** `WholeReply` speaks of the end; the invariant of every token.
  `HeaderSoFar`, `HeaderSays` and `HeaderSaid` are what libcurl knows of the
  header behind the tokens it has used, and that this is what the header says
  when it is over. `PlainBody` and `ChunkedBody` say that the callback has been
  given the beginning of the body: for chunks, that the decoder, its count and
  the delivered bytes are what `Dechunked` has behind the same tokens
  (`DechunkedGrows`: more tokens only append). `Ended` is why libcurl reads no
  more: only a reply without an end of its own, or a header that never ended,
  takes the end of the connection for it. `Refusal` is what makes
  `RefusedBodyStays` inductive: no reason to send is left, and no timer. The
  refinement is step by step: the actions with a body are `Deliver` or
  `DeliverNoMemory`, an error is `Break` when it happens, a return without one is
  `Finish`, the rest shows nothing.
  `CallbackIsSafe` is `HttpReceiveProofs`, instantiated.
* **Outputs.** `OutInv` says what the data of a success on the wire are. It
  needs `UploadInv`: the service computes the checksum of what was uploaded, and
  that is the caller's stream only if the file was its own.
* **Example.** `ScriptIs` turns the order of `main`'s statements into facts;
  `MemoryInv` says at which of them each buffer is live and that `buf_len` is in
  range; `Wraps` and `LengthIs` are the arithmetic modulo `SizeMax + 1` behind a
  file that is too short or missing. `EnrolInv` follows the speech from the
  database's latest to the speaker's model; it holds only because what can
  arrive late from a program that has not given up is harmless (`LateInv`: a
  deletion, which sets `deletedLate`, a creation or a reservation). `LastBy`
  makes `ParamsInForce` inductive: an array holds the last of the values set *so
  far*.

* **Tables.** A table is `Good` if it has at least three slots, more slots than
  fields, no freed slot, and a list of all entries, each of which a lookup of
  its name finds. The count gives an empty slot, and probing, which goes round,
  reaches it (`ProbeReaches`, `FirstExists`). An insertion takes the slot where
  the lookup would have stopped, so no other lookup changes (`SlotTaken`,
  `PlaceAbsent`); a deletion leaves a freed slot that the insertion behind it
  takes again (`PlaceAgain`), or that a growing table does not inherit
  (`ResizeGood`). A table that has fields deleted and none set, which json-c
  allows and the tokener never does, is not `Good`.
* **Memory.** `Balanced(h, owners)` says that every count is the number of
  owners and of places in nodes that live. It is kept by taking a reference, a
  new node, a value put into an array or object, and giving references up
  (`PutsBalance`): that one is for any heap and work, because `Freed` is a fixed
  point of its rounds (`FreedIs`: the rounds only grow, and there are as many as
  nodes).
* **Tokener.** `IInv` joins the two with the stack: a level below the top waits
  for a value (`StackOK`), an array or object is there when something is added
  to it (`Holds`), and the owners are the levels, the value on its way and the
  result. One lemma per action. Counts alone leave room for nodes that hold each
  other and that nobody has; `OrderInv` excludes them: values are made after what
  they are put into, on the heap, on the stack and on their way between the two.
  It also says that what a level has is inside no node, only the level refers to
  it (`Apart`): what is added to it changes the meaning of no other node.
* **The tokener's result.** About the grammar: a value ends behind its beginning
  and within the text (`NestedProper`); where a list cannot go on, no longer one
  exists (`NoneBehind`), and at most one of them is closed (`OneList`); one
  element more, or a mark that does not fit, decides what a level comes to
  (`BeforeFacts`, `ElementFacts`, `BehindElementFacts`). About the nodes: adding
  to an array or an object adds to what it means (`ArrayAddMeans`,
  `ObjectAddMeans`, where the tables' theorem is used) and changes no node
  outside (`OthersMean`), because a node holds only younger ones
  (`InsideIsAfter`). `ReadsInv` joins the two. Every level of the stack stands at
  a place of the grammar (`Chain`): what it waits for is a value with the levels
  that are left (`Waits`), and what its node means is the list read so far. So
  the first value of the text is the value of the lowest level, whatever that
  comes to; and if the top comes to nothing, so do all below it (`ChainFails`),
  which makes every error right. The depth counts on both sides: a level too many
  is an error in the code and no value in the grammar (`DeepEnough`). One lemma
  per action.

**What is defined by recursion** (`Dechunked`, `SpeechOf`, `KeptOf`, `Resize`,
`Freed`, `Lists`, `Nested`, `Meaning`) is a recursive function of a number, in a
module without `RECURSIVE`. That such a function exists, and what holds of it at
every number, is proved from the least element of a set of numbers (`WFMin` of
the library, which takes no operator): `Least`, `SetInduction`,
`RecursionExists`.

**Only model-checked** are the liveness properties `CallReturns`,
`TransferEnds`, `ParseReturns` and `Returns`, and the fairness that
`HttpTransfer` implements as `HttpReceive` (`ImplementsReceive` is proved but
for it): the prover has neither fairness nor ENABLED. Every invariant and every
action property of a passing run is a theorem.

## 5. Where the code and its documentation disagree

Shown by a run:

1. A body that libcurl delivers in several calls is parsed without its earlier
   chunks (`xbusiness_misc.c:23`; `http_receive_whole`).
2. Threads that identify in one group within one second upload each other's
   streams (`client_same_group`). The same holds for `xvpr_add_speech` and
   `xvpr_verify_person` with one name in different groups: the file is named by
   the name alone.
3. An end is announced to somebody who has not spoken (`vad_heard`):
   `xvpr_vad_create_vad` sets no counters, and its handle points into a dead
   frame (`xbusiness_vad.c:22-28`). With counters of 4 and 4 in that memory the
   first silent frame is an end, while the comments at `:138` and `:140` ask for
   three silent frames in a row and six in all. The same property fails with
   memory that holds zeros: a frame at full scale has a mean of 32768, which the
   `short` of `get_buffer_mean` wraps to -32768 in some builds: it is silence then
   (`:134`).

Seen while modelling, in the models, and not given a run of their own:

* With the shared json-c, a reply that cannot be read has no `error_code`; the
  call reads 0 and returns `XVPR_CODE_SUCCESS`. `Readable` is the assumption
  that excludes it in the proofs.
* The detector's comparisons are strict: it needs four silent frames and seven
  in all, where the comments at `xbusiness_vad.c:138` and `:140` say three and
  six. `Utterance` has the comments' numbers, `Vad` the code's;
  `EndIsOneFrameLate` says what the difference comes to. The comment at `:140`
  can also be read as six *voiced* frames; the code, which adds the silent ones,
  then announces ends too early, too.
* `xvpr_vad_is_speaking` returns 0 when the speaker has stopped; the header
  (`xbusiness_vpr.h:282`) says 1. `Vad` has the code's answer, and
  `AnswerIsTheEnd` says what it means.
* `xvpr_get_info`'s check for an empty list of persons is on the size of a
  pointer and never true (`xbusiness_vpr.c:247`).
* `xvpr_remove_person` deletes the person, then trims the speeches of the
  person it has deleted and returns the refusal of that request
  (`xbusiness_vpr.c:201`).
* `xvpr_remove_speech` sends a checksum and neither group nor name. Whose speech
  goes, if two persons have the same recording, is the service's choice.
* `xvpr_global_init` that is tried again after a failure succeeds with nothing
  set up: libcurl's counter has already counted (the `setUp = "failed"` case of
  `ReadyInUse`).
* A text that is formatted while its parameter is set may end where no value
  ends: "y" overwritten by "yxy" may read as "yx".
* `main.c:102` uploads the buffer of the file with the length of the trimmed
  speech, so what is enrolled is the beginning of the file.
* `buf_len <= 0` in `main.c:79` never catches the -1 of a missing file: it is a
  `size_t`. The program then dies in the detection, before anything is uploaded.
* A value as long as its array has no terminator (`xbusiness_vpr.c:91`);
  `version` has two cells and cannot hold "10".
* A person that `main` deletes at its start may vanish at its end, if that
  request is late: without the history variable `deletedLate`,
  `GoodEndIsEnrolled` fails.
* libcurl, as the SDK uses it: every call has a fresh handle and connection, so
  nothing is retried; a reply that ends inside its header, or half an interim
  reply, is `CURLE_OK` with an empty text; so is a truncated body whose end is
  the end of the connection; a chunk's size that is one too large swallows the
  line's end and may still be `CURLE_OK`; an error status is `CURLE_OK`; a
  refusal with `Connection: close` does not stop the sending of the body; after
  the connection is made nothing times out but the second for `100 Continue`.
* json-c: an unterminated comment behind a value inside another one makes the
  inner value the result (`[1 /*` is 1), so `ResultIsTheFirstValue` is for texts
  without comments; a comma before a closing bracket and anything behind the
  first value are accepted; freed slots of a table could in time fill it and
  make lookups endless, but a field is only ever freed to be set again.

Some hazards are in the models and in no property that would catch them,
because the code does not avoid them and no document says that it should; the
properties name them as exceptions, and `PROJECT.json` says so at each: a
temporary file that could not be written (`xbusiness_vpr.c:279`), the empty list
of persons (`:247`), calls that may wait for ever (`:147`), an initialisation
that is tried again (`:53`), a parameter that changes while it is read (`:91`),
`malloc` that returns NULL (`xbusiness_vad.c:44`), a late deletion
(`main.c:51`), and the beginning of the file that is uploaded (`main.c:102`).

## 6. Not modelled

* **Most of the vendored code.** The repository's implementation lines are
  those of libcurl and its command-line tool, of which the SDK runs a small
  part. FTP, SMTP, IMAP, POP3, LDAP, TELNET, RTSP, SSH, the TLS back ends,
  proxies, authentication, cookies, redirects, resolvers, the reuse of
  connections and pipelines, and the tool (`tool_*.c`) are not reached from any
  function of `src/src/`: a model of them would be of libcurl and not of this
  system. Of what is reached, `curl_formadd` and the generation of the body
  (`formdata.c`), the parsing of URLs (`url.c`) and the sockets (`connect.c`,
  `select.c`) are data or the operating system's.
* json-c's printing, files, conversions of numbers and Unicode escapes
  (`json_object_to_json_string`, `printbuf.c`, `json_util.c`): not used by the
  SDK, or wording.
* Two `xvpr_global_init` at the same time, and API calls after
  `xvpr_global_release`: excluded by the documentation that `GlobalState` names;
  the flag, which stays set, does not protect either.
* The texts of URLs, requests and replies. A request is a record of its fields,
  a reply the fields the SDK reads.
* The float arithmetic of `get_buffer_mean`: sums of up to 2^24 are exact in a
  float, which is a frame of 512 samples at full scale or 47,000 at the
  threshold; the model uses integers, also beyond that. The mean is cut to an
  integer before it is compared, so a frame whose mean is 350.5 is silent here
  and loud to the trimming, which compares the sum.
* Memory and handles that are never given back: no property of a finite
  sequence of calls can see them.
* `src/CSDK.vcproj`, `Makefile`, binaries, documents: no behaviour.

## 7. Plan

Done, in this order: the receive buffer; the service and the calls; the
contract of the API; the detector; trimming; global state;
proofs of the first five; the transfer inside libcurl and its refinement of the
receive buffer; json-c's parser; the parameters; the example program; proofs of
the global state and the parameters, of codes, success and order, and of the
refinement of the contract; proofs of the outputs, of the filter, of the
transfer and its refinement of the receive buffer, of the example program, of
json-c's tables and reference counts, and of the tokener and its result; late
requests in the contract of the API and the proof of its refinement; the
detector on memory that is not its own.

Next:

1. `JsonReply` as a consequence of `JsonTokener`: a mapping of whole texts to
   its three cases, in one run.
2. `GlobalState` without the rule that the release is last.
