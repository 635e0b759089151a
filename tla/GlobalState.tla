----------------------------- MODULE GlobalState -----------------------------
(***************************************************************************)
(* xvpr_global_init and xvpr_global_release of src/src/xbusiness_vpr.c and *)
(* the use of libcurl between them: the SDK's flag g_init_state, libcurl's *)
(* counter "initialized" and what libcurl sets up (curl/lib/easy.c).       *)
(* Neither has a lock.                                                     *)
(*                                                                         *)
(* Callers keep the rules of the documentation: the global functions run   *)
(* while no other thread is in the SDK (curl_global_init(3),               *)
(* curl_global_cleanup(3)), and the release is the last thing a program    *)
(* does (xbusiness_vpr.h:140).  xbusiness_vpr.c:46 also wants one          *)
(* initialisation before anything else; the flag, and the check of the     *)
(* counter in curl_easy_init, are there for programs that make several or  *)
(* none, and the model has them: API calls run in parallel after an        *)
(* initialisation that succeeded, and one by one without one.              *)
(***************************************************************************)
EXTENDS Naturals

CONSTANTS
  Thread,       \* the threads of the program
  MaxInits,     \* bound: calls of xvpr_global_init
  MaxCalls      \* bound: API calls

ASSUME GlobalAssumption == MaxInits \in Nat /\ MaxCalls \in Nat

VARIABLES
  g_init_state,  \* the SDK's flag
  initialized,   \* libcurl's counter
  ready,         \* whether libcurl is set up
  setUp,         \* history: who has set it up ("init", "easy"), or "failed"
  pc,            \* where each thread is
  reg,           \* the value of "initialized" that a thread has read
  ret,           \* what the latest xvpr_global_init returned
  inits, calls   \* how many were made

vars == <<g_init_state, initialized, ready, setUp, pc, reg, ret, inits, calls>>

(* Where a thread is: outside; in xvpr_global_init or in curl_easy_init of *)
(* an API call and there in curl_global_init; using an easy handle; in     *)
(* xvpr_global_release; done.                                              *)
InInit == {"init", "init_count", "init_setup", "init_result"}
InEasy == {"easy", "easy_count", "easy_setup", "easy_result"}
InRelease == {"release", "cleanup", "teardown"}
Places == {"out", "using", "exited"} \cup InInit \cup InEasy \cup InRelease

Goto(t, place) == pc' = [pc EXCEPT ![t] = place]

Alone(t) == \A u \in Thread \ {t} : pc[u] = "out"

Init ==
  /\ g_init_state = 0
  /\ initialized = 0
  /\ ready = FALSE
  /\ setUp = "never"
  /\ pc = [t \in Thread |-> "out"]
  /\ reg = [t \in Thread |-> 0]
  /\ ret = "none"
  /\ inits = 0
  /\ calls = 0
-----------------------------------------------------------------------------
CallInit(t) ==
  /\ pc[t] = "out" /\ Alone(t)
  /\ inits < MaxInits
  /\ inits' = inits + 1
  /\ ret' = "none"
  /\ Goto(t, "init")
  /\ UNCHANGED <<g_init_state, initialized, ready, setUp, reg, calls>>

(* Variant: the flag is not looked at.                                     *)
TestStateNever(t) ==
  /\ pc[t] = "init"
  /\ reg' = [reg EXCEPT ![t] = initialized]
  /\ Goto(t, "init_count")
  /\ UNCHANGED <<g_init_state, initialized, ready, setUp, ret, inits, calls>>

(* if (0x0000 == g_init_state) ... curl_global_init begins by reading its  *)
(* counter.                                                                *)
TestState(t) ==
  /\ pc[t] = "init"
  /\ IF g_init_state = 0
     THEN /\ reg' = [reg EXCEPT ![t] = initialized]
          /\ Goto(t, "init_count")
          /\ ret' = ret
     ELSE /\ ret' = "success"
          /\ Goto(t, "out")
          /\ reg' = reg
  /\ UNCHANGED <<g_init_state, initialized, ready, setUp, inits, calls>>

(* if(initialized++) return CURLE_OK; from either caller.                  *)
Count(t, place, setup, result) ==
  /\ pc[t] = place
  /\ initialized' = reg[t] + 1
  /\ Goto(t, IF reg[t] # 0 THEN result ELSE setup)
  /\ UNCHANGED <<g_init_state, ready, setUp, reg, ret, inits, calls>>

(* The set-up itself (win32_init, the resolver, libssh2).  On failure the  *)
(* counter stays as it is; xvpr_global_init returns, and in curl_easy_init *)
(* the API call goes on without a handle and fails.                        *)
SetUp(t, caller, place, result, failure) ==
  /\ pc[t] = place
  /\ \/ ready' = TRUE /\ setUp' = caller /\ Goto(t, result) /\ ret' = ret
     \/ /\ ready' = ready
        /\ setUp' = "failed"
        /\ Goto(t, failure)
        /\ ret' = IF caller = "init" THEN "fail" ELSE ret
  /\ UNCHANGED <<g_init_state, initialized, reg, inits, calls>>

SetState(t) ==
  /\ pc[t] = "init_result"
  /\ g_init_state' = 1
  /\ ret' = "success"
  /\ Goto(t, "out")
  /\ UNCHANGED <<initialized, ready, setUp, reg, inits, calls>>

(* An API call: curl_easy_init sets libcurl up if nobody has.              *)
CallApi(t) ==
  /\ pc[t] = "out"
  /\ \A u \in Thread \ {t} : pc[u] \in {"out", "using"} \cup InEasy
  /\ ret = "success" \/ Alone(t)
  /\ calls < MaxCalls
  /\ calls' = calls + 1
  /\ Goto(t, "easy")
  /\ UNCHANGED <<g_init_state, initialized, ready, setUp, reg, ret, inits>>

(* Variant: libcurl is taken to be set up.                                 *)
EasyInitAtOnce(t) ==
  /\ pc[t] = "easy"
  /\ Goto(t, "using")
  /\ UNCHANGED <<g_init_state, initialized, ready, setUp, reg, ret, inits, calls>>

EasyInit(t) ==
  /\ pc[t] = "easy"
  /\ IF initialized = 0
     THEN reg' = [reg EXCEPT ![t] = initialized] /\ Goto(t, "easy_count")
     ELSE reg' = reg /\ Goto(t, "using")
  /\ UNCHANGED <<g_init_state, initialized, ready, setUp, ret, inits, calls>>

EasyInitDone(t) ==
  /\ pc[t] = "easy_result"
  /\ Goto(t, "using")
  /\ UNCHANGED <<g_init_state, initialized, ready, setUp, reg, ret, inits, calls>>

EasyCleanup(t) ==
  /\ pc[t] = "using"
  /\ Goto(t, "out")
  /\ UNCHANGED <<g_init_state, initialized, ready, setUp, reg, ret, inits, calls>>

CallRelease(t) ==
  /\ pc[t] = "out" /\ Alone(t)
  /\ Goto(t, "release")
  /\ UNCHANGED <<g_init_state, initialized, ready, setUp, reg, ret, inits, calls>>

(* Variant: libcurl's counter goes down whatever it and the flag are.      *)
TestReleaseNothing(t) ==
  /\ pc[t] = "release"
  /\ Goto(t, "cleanup")
  /\ UNCHANGED <<g_init_state, initialized, ready, setUp, reg, ret, inits, calls>>

(* if (0x0001 == g_init_state) curl_global_cleanup(): if(!initialized)     *)
(* return.  The flag stays as it is.                                       *)
TestRelease(t) ==
  /\ pc[t] = "release"
  /\ Goto(t, IF g_init_state = 1 /\ initialized # 0 THEN "cleanup"
                                                    ELSE "exited")
  /\ UNCHANGED <<g_init_state, initialized, ready, setUp, reg, ret, inits, calls>>

(* if(--initialized) return;                                               *)
Uncount(t) ==
  /\ pc[t] = "cleanup"
  /\ initialized' = initialized - 1
  /\ Goto(t, IF initialized' # 0 THEN "exited" ELSE "teardown")
  /\ UNCHANGED <<g_init_state, ready, setUp, reg, ret, inits, calls>>

TearDown(t) ==
  /\ pc[t] = "teardown"
  /\ ready' = FALSE
  /\ Goto(t, "exited")
  /\ UNCHANGED <<g_init_state, initialized, setUp, reg, ret, inits, calls>>

Step(t) ==
  \/ CallInit(t)
  \/ TestState(t)
  \/ Count(t, "init_count", "init_setup", "init_result")
  \/ SetUp(t, "init", "init_setup", "init_result", "out")
  \/ SetState(t)
  \/ CallApi(t)
  \/ EasyInit(t)
  \/ Count(t, "easy_count", "easy_setup", "easy_result")
  \/ SetUp(t, "easy", "easy_setup", "easy_result", "out")
  \/ EasyInitDone(t)
  \/ EasyCleanup(t)
  \/ CallRelease(t)
  \/ TestRelease(t)
  \/ Uncount(t)
  \/ TearDown(t)

Next == \E t \in Thread : Step(t)

Spec == Init /\ [][Next]_vars
-----------------------------------------------------------------------------
TypeOK ==
  /\ g_init_state \in {0, 1}
  /\ initialized \in 0 .. MaxInits + MaxCalls
  /\ ready \in BOOLEAN
  /\ setUp \in {"never", "init", "easy", "failed"}
  /\ pc \in [Thread -> Places]
  /\ reg \in [Thread -> 0 .. MaxInits + MaxCalls]
  /\ ret \in {"none", "success", "fail"}
  /\ inits \in 0 .. MaxInits
  /\ calls \in 0 .. MaxCalls

(* libcurl is set up whenever an API call uses an easy handle, whichever   *)
(* thread set it up and however often, unless the one attempt to do so has *)
(* failed: no later call makes another.                                    *)
ReadyInUse ==
  \A t \in Thread : pc[t] = "using" => ready \/ setUp = "failed"

(* However often a program has called xvpr_global_init, one                *)
(* xvpr_global_release gives back all that it has set up: the flag keeps   *)
(* libcurl's counter at one.  (What curl_easy_init has set up by itself is *)
(* counted beside it and stays.)                                           *)
ReleaseFreesTheLibrary ==
  \A t \in Thread :
    pc[t] = "exited" /\ setUp = "init" => ~ready /\ initialized = 0
=============================================================================
