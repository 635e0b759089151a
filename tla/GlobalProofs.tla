---------------------------- MODULE GlobalProofs ----------------------------
(***************************************************************************)
(* What holds of GlobalState, and of GlobalParams around it, for any set   *)
(* of threads, any number of calls and any values of a parameter.          *)
(***************************************************************************)
EXTENDS GlobalParams, TLAPS

(* Threads that exclude all others.                                        *)
Excluding == InInit \cup InRelease \cup {"exited"}

(* Who calls the global functions is alone, and so is who calls the API    *)
(* without an initialisation that has succeeded; with one, nobody sets     *)
(* libcurl up.                                                             *)
Rules ==
  \A t \in Thread :
    /\ pc[t] \in Excluding => Alone(t)
    /\ pc[t] \in InEasy \cup {"using"} /\ ret # "success" => Alone(t)
    /\ pc[t] \in {"easy_count", "easy_setup", "easy_result"} => ret # "success"

(* How the counter, what a thread has read of it and what has been set up  *)
(* hang together at each place.                                            *)
Counted ==
  /\ ret = "success" => g_init_state = 1
  /\ initialized <= inits + calls
  /\ \A t \in Thread :
       /\ pc[t] \in {"init", "init_count", "easy", "easy_count"} =>
            initialized + 1 <= inits + calls
       /\ pc[t] = "init_count" => reg[t] = initialized /\ g_init_state = 0
       /\ pc[t] = "easy_count" => reg[t] = 0 /\ initialized = 0
       /\ pc[t] \in {"init_setup", "easy_setup"} =>
            initialized = 1 /\ setUp = "never" /\ g_init_state = 0
       /\ pc[t] = "init_result" => initialized # 0 /\ g_init_state = 0
       /\ pc[t] \in {"easy_result", "using"} => initialized # 0
       /\ pc[t] = "cleanup" => initialized # 0
       /\ pc[t] = "teardown" => initialized = 0

(* The release has begun to give back.                                     *)
Releasing == \E t \in Thread : pc[t] \in {"cleanup", "teardown", "exited"}

SettingUp == \E t \in Thread : pc[t] \in {"init_setup", "easy_setup"}

SetUpOnce ==
  /\ ~Releasing /\ initialized = 0 => setUp = "never"
  /\ ~Releasing /\ initialized # 0 /\ ~SettingUp =>
       ready = TRUE \/ setUp = "failed"
  /\ ~Releasing /\ g_init_state = 1 => initialized # 0
  /\ ~Releasing /\ setUp = "init" =>
       /\ initialized = 1
       /\ g_init_state = 1 \/ \E t \in Thread : pc[t] = "init_result"
  /\ \A t \in Thread :
       /\ pc[t] = "cleanup" /\ setUp = "init" => initialized = 1
       /\ pc[t] = "exited" /\ setUp = "init" => ready = FALSE /\ initialized = 0

(* TypeOK with its ranges as inequalities.                                 *)
Typed ==
  /\ g_init_state \in {0, 1}
  /\ ready \in BOOLEAN
  /\ setUp \in {"never", "init", "easy", "failed"}
  /\ ret \in {"none", "success", "fail"}
  /\ pc \in [Thread -> Places]
  /\ initialized \in Nat /\ inits \in Nat /\ calls \in Nat
  /\ inits <= MaxInits /\ calls <= MaxCalls
  /\ reg \in [Thread -> Nat]
  /\ \A t \in Thread : reg[t] <= inits + calls

IInv == Typed /\ Rules /\ Counted /\ SetUpOnce
-----------------------------------------------------------------------------
(* The invariant holds at the start.                                       *)
LEMMA InitIInv == Init => IInv
<1> SUFFICES ASSUME Init PROVE IInv
  OBVIOUS
<1> USE GlobalAssumption DEF Init
<1>1. Typed
  <2>1. pc \in [Thread -> Places] /\ ready \in BOOLEAN
    BY DEF Places, InInit, InEasy, InRelease
  <2>2. /\ 0 <= MaxInits /\ 0 <= MaxCalls
        /\ reg \in [Thread -> Nat] /\ \A t \in Thread : reg[t] <= 0
    OBVIOUS
  <2> QED  BY <2>1, <2>2 DEF Typed
<1>2. Rules
  BY DEF Rules, Excluding, InInit, InEasy, InRelease
<1>3. Counted
  BY DEF Counted
<1>4. SetUpOnce
  BY DEF SetUpOnce, Releasing, SettingUp
<1> QED  BY <1>1, <1>2, <1>3, <1>4 DEF IInv

(* Every step of a thread keeps the invariant.                             *)
LEMMA StepIInv ==
  ASSUME NEW t \in Thread, IInv, Step(t)
  PROVE  IInv'
<1> USE DEF IInv, Goto, InInit, InEasy, InRelease
<1>0. /\ MaxInits \in Nat /\ MaxCalls \in Nat
      /\ pc \in [Thread -> Places] /\ reg \in [Thread -> Nat]
      /\ initialized \in Nat /\ inits \in Nat /\ calls \in Nat
      /\ g_init_state \in {0, 1}
  BY GlobalAssumption DEF Typed
<1>1. CASE CallInit(t)
  <2>1. Typed'
    BY <1>0, <1>1 DEF CallInit, Typed, Places, Counted
  <2>2. Rules'
    BY <1>0, <1>1 DEF CallInit, Rules, Excluding, Alone, Counted, SetUpOnce,
       Releasing
  <2>3. Counted'
    BY <1>0, <1>1 DEF CallInit, Counted, Rules, Excluding, Alone, SetUpOnce,
       Releasing
  <2>4. SetUpOnce'
    BY <1>0, <1>1 DEF CallInit, SetUpOnce, Counted, Rules, Excluding, Alone,
       Releasing, SettingUp
  <2> QED  BY <2>1, <2>2, <2>3, <2>4
<1>2. CASE TestState(t)
  <2>1. Typed'
    BY <1>0, <1>2 DEF TestState, Typed, Places, Counted
  <2>2. Rules'
    BY <1>0, <1>2 DEF TestState, Rules, Excluding, Alone, Counted, SetUpOnce,
       Releasing
  <2>3. Counted'
    BY <1>0, <1>2 DEF TestState, Counted, Rules, Excluding, Alone, SetUpOnce,
       Releasing
  <2>4. SetUpOnce'
    BY <1>0, <1>2 DEF TestState, SetUpOnce, Counted, Rules, Excluding, Alone,
       Releasing, SettingUp
  <2> QED  BY <2>1, <2>2, <2>3, <2>4
<1>3. CASE Count(t, "init_count", "init_setup", "init_result")
  <2>1. Typed'
    BY <1>0, <1>3 DEF Count, Typed, Places, Counted
  <2>2. Rules'
    BY <1>0, <1>3 DEF Count, Rules, Excluding, Alone, Counted, SetUpOnce,
       Releasing
  <2>3. Counted'
    BY <1>0, <1>3 DEF Count, Counted, Rules, Excluding, Alone, SetUpOnce,
       Releasing
  <2>4. SetUpOnce'
    BY <1>0, <1>3 DEF Count, SetUpOnce, Counted, Rules, Excluding, Alone,
       Releasing, SettingUp
  <2> QED  BY <2>1, <2>2, <2>3, <2>4
<1>4. CASE SetUp(t, "init", "init_setup", "init_result", "out")
  <2>1. Typed'
    BY <1>0, <1>4 DEF SetUp, Typed, Places, Counted
  <2>2. Rules'
    BY <1>0, <1>4 DEF SetUp, Rules, Excluding, Alone, Counted, SetUpOnce,
       Releasing
  <2>3. Counted'
    BY <1>0, <1>4 DEF SetUp, Counted, Rules, Excluding, Alone, SetUpOnce,
       Releasing
  <2>4. SetUpOnce'
    BY <1>0, <1>4 DEF SetUp, SetUpOnce, Counted, Rules, Excluding, Alone,
       Releasing, SettingUp
  <2> QED  BY <2>1, <2>2, <2>3, <2>4
<1>5. CASE SetState(t)
  <2>1. Typed'
    BY <1>0, <1>5 DEF SetState, Typed, Places, Counted
  <2>2. Rules'
    BY <1>0, <1>5 DEF SetState, Rules, Excluding, Alone, Counted, SetUpOnce,
       Releasing
  <2>3. Counted'
    BY <1>0, <1>5 DEF SetState, Counted, Rules, Excluding, Alone, SetUpOnce,
       Releasing
  <2>4. SetUpOnce'
    BY <1>0, <1>5 DEF SetState, SetUpOnce, Counted, Rules, Excluding, Alone,
       Releasing, SettingUp
  <2> QED  BY <2>1, <2>2, <2>3, <2>4
<1>6. CASE CallApi(t)
  <2>1. Typed'
    BY <1>0, <1>6 DEF CallApi, Typed, Places, Counted
  <2>2. Rules'
    BY <1>0, <1>6 DEF CallApi, Rules, Excluding, Alone, Counted, SetUpOnce,
       Releasing
  <2>3. Counted'
    BY <1>0, <1>6 DEF CallApi, Counted, Rules, Excluding, Alone, SetUpOnce,
       Releasing
  <2>4. SetUpOnce'
    BY <1>0, <1>6 DEF CallApi, SetUpOnce, Counted, Rules, Excluding, Alone,
       Releasing, SettingUp
  <2> QED  BY <2>1, <2>2, <2>3, <2>4
<1>7. CASE EasyInit(t)
  <2>1. Typed'
    BY <1>0, <1>7 DEF EasyInit, Typed, Places, Counted
  <2>2. Rules'
    BY <1>0, <1>7 DEF EasyInit, Rules, Excluding, Alone, Counted, SetUpOnce,
       Releasing
  <2>3. Counted'
    BY <1>0, <1>7 DEF EasyInit, Counted, Rules, Excluding, Alone, SetUpOnce,
       Releasing
  <2>4. SetUpOnce'
    BY <1>0, <1>7 DEF EasyInit, SetUpOnce, Counted, Rules, Excluding, Alone,
       Releasing, SettingUp
  <2> QED  BY <2>1, <2>2, <2>3, <2>4
<1>8. CASE Count(t, "easy_count", "easy_setup", "easy_result")
  <2>1. Typed'
    BY <1>0, <1>8 DEF Count, Typed, Places, Counted
  <2>2. Rules'
    BY <1>0, <1>8 DEF Count, Rules, Excluding, Alone, Counted, SetUpOnce,
       Releasing
  <2>3. Counted'
    BY <1>0, <1>8 DEF Count, Counted, Rules, Excluding, Alone, SetUpOnce,
       Releasing
  <2>4. SetUpOnce'
    BY <1>0, <1>8 DEF Count, SetUpOnce, Counted, Rules, Excluding, Alone,
       Releasing, SettingUp
  <2> QED  BY <2>1, <2>2, <2>3, <2>4
<1>9. CASE SetUp(t, "easy", "easy_setup", "easy_result", "out")
  <2>1. Typed'
    BY <1>0, <1>9 DEF SetUp, Typed, Places, Counted
  <2>2. Rules'
    BY <1>0, <1>9 DEF SetUp, Rules, Excluding, Alone, Counted, SetUpOnce,
       Releasing
  <2>3. Counted'
    BY <1>0, <1>9 DEF SetUp, Counted, Rules, Excluding, Alone, SetUpOnce,
       Releasing
  <2>4. SetUpOnce'
    BY <1>0, <1>9 DEF SetUp, SetUpOnce, Counted, Rules, Excluding, Alone,
       Releasing, SettingUp
  <2> QED  BY <2>1, <2>2, <2>3, <2>4
<1>10. CASE EasyInitDone(t)
  <2>1. Typed'
    BY <1>0, <1>10 DEF EasyInitDone, Typed, Places, Counted
  <2>2. Rules'
    BY <1>0, <1>10 DEF EasyInitDone, Rules, Excluding, Alone, Counted, SetUpOnce,
       Releasing
  <2>3. Counted'
    BY <1>0, <1>10 DEF EasyInitDone, Counted, Rules, Excluding, Alone, SetUpOnce,
       Releasing
  <2>4. SetUpOnce'
    BY <1>0, <1>10 DEF EasyInitDone, SetUpOnce, Counted, Rules, Excluding, Alone,
       Releasing, SettingUp
  <2> QED  BY <2>1, <2>2, <2>3, <2>4
<1>11. CASE EasyCleanup(t)
  <2>1. Typed'
    BY <1>0, <1>11 DEF EasyCleanup, Typed, Places, Counted
  <2>2. Rules'
    BY <1>0, <1>11 DEF EasyCleanup, Rules, Excluding, Alone, Counted, SetUpOnce,
       Releasing
  <2>3. Counted'
    BY <1>0, <1>11 DEF EasyCleanup, Counted, Rules, Excluding, Alone, SetUpOnce,
       Releasing
  <2>4. SetUpOnce'
    BY <1>0, <1>11 DEF EasyCleanup, SetUpOnce, Counted, Rules, Excluding, Alone,
       Releasing, SettingUp
  <2> QED  BY <2>1, <2>2, <2>3, <2>4
<1>12. CASE CallRelease(t)
  <2>1. Typed'
    BY <1>0, <1>12 DEF CallRelease, Typed, Places, Counted
  <2>2. Rules'
    BY <1>0, <1>12 DEF CallRelease, Rules, Excluding, Alone, Counted, SetUpOnce,
       Releasing
  <2>3. Counted'
    BY <1>0, <1>12 DEF CallRelease, Counted, Rules, Excluding, Alone, SetUpOnce,
       Releasing
  <2>4. SetUpOnce'
    BY <1>0, <1>12 DEF CallRelease, SetUpOnce, Counted, Rules, Excluding, Alone,
       Releasing, SettingUp
  <2> QED  BY <2>1, <2>2, <2>3, <2>4
<1>13. CASE TestRelease(t)
  <2>1. Typed'
    BY <1>0, <1>13 DEF TestRelease, Typed, Places, Counted
  <2>2. Rules'
    BY <1>0, <1>13 DEF TestRelease, Rules, Excluding, Alone, Counted, SetUpOnce,
       Releasing
  <2>3. Counted'
    BY <1>0, <1>13 DEF TestRelease, Counted, Rules, Excluding, Alone, SetUpOnce,
       Releasing
  <2>4. SetUpOnce'
    BY <1>0, <1>13 DEF TestRelease, SetUpOnce, Counted, Rules, Excluding, Alone,
       Releasing, SettingUp
  <2> QED  BY <2>1, <2>2, <2>3, <2>4
<1>14. CASE Uncount(t)
  <2>1. Typed'
    BY <1>0, <1>14 DEF Uncount, Typed, Places, Counted
  <2>2. Rules'
    BY <1>0, <1>14 DEF Uncount, Rules, Excluding, Alone, Counted, SetUpOnce,
       Releasing
  <2>3. Counted'
    BY <1>0, <1>14 DEF Uncount, Counted, Rules, Excluding, Alone, SetUpOnce,
       Releasing
  <2>4. SetUpOnce'
    BY <1>0, <1>14 DEF Uncount, SetUpOnce, Counted, Rules, Excluding, Alone,
       Releasing, SettingUp
  <2> QED  BY <2>1, <2>2, <2>3, <2>4
<1>15. CASE TearDown(t)
  <2>1. Typed'
    BY <1>0, <1>15 DEF TearDown, Typed, Places, Counted
  <2>2. Rules'
    BY <1>0, <1>15 DEF TearDown, Rules, Excluding, Alone, Counted, SetUpOnce,
       Releasing
  <2>3. Counted'
    BY <1>0, <1>15 DEF TearDown, Counted, Rules, Excluding, Alone, SetUpOnce,
       Releasing
  <2>4. SetUpOnce'
    BY <1>0, <1>15 DEF TearDown, SetUpOnce, Counted, Rules, Excluding, Alone,
       Releasing, SettingUp
  <2> QED  BY <2>1, <2>2, <2>3, <2>4
<1> QED
  BY <1>1, <1>2, <1>3, <1>4, <1>5, <1>6, <1>7, <1>8, <1>9, <1>10, <1>11,
     <1>12, <1>13, <1>14, <1>15 DEF Step
(* The invariant tells what the runs check.                                *)
LEMMA IInvImplies ==
  ASSUME IInv
  PROVE  TypeOK /\ ReadyInUse /\ ReleaseFreesTheLibrary
<1>1. TypeOK
  <2>1. /\ initialized \in 0 .. MaxInits + MaxCalls
        /\ reg \in [Thread -> 0 .. MaxInits + MaxCalls]
        /\ inits \in 0 .. MaxInits
        /\ calls \in 0 .. MaxCalls
    BY GlobalAssumption DEF IInv, Typed, Counted
  <2> QED  BY <2>1 DEF IInv, Typed, TypeOK
<1>2. ReadyInUse
  BY DEF ReadyInUse, IInv, Typed, Rules, Counted, SetUpOnce, Releasing,
     SettingUp, Excluding, Alone, InInit, InEasy, InRelease
<1>3. ReleaseFreesTheLibrary
  BY DEF ReleaseFreesTheLibrary, IInv, SetUpOnce
<1> QED  BY <1>1, <1>2, <1>3

(* A step of the whole is a step of a thread in GlobalState, or leaves     *)
(* GlobalState as it is.                                                   *)
LEMMA GlobalStepIInv == IInv /\ [GlobalNext]_gvars => IInv'
<1> SUFFICES ASSUME IInv, [GlobalNext]_gvars PROVE IInv'
  OBVIOUS
<1>1. CASE vars' = vars
  BY <1>1 DEF vars, IInv, Typed, Rules, Alone, Counted, SetUpOnce, Releasing,
     SettingUp
<1>2. ASSUME NEW t \in Thread, Step(t) PROVE IInv'
  BY <1>2, StepIInv
<1>3. vars' = vars \/ \E t \in Thread : Step(t)
  BY DEF GlobalNext, CallSet, CopyCell, SetReturns, FormatCell, LibraryStep,
     gvars
<1> QED  BY <1>1, <1>2, <1>3

(* The strengthened invariant of the flag and the counter holds throughout. *)
LEMMA GlobalInvariant == GlobalSpec => []IInv
<1>1. GlobalInit => IInv
  BY InitIInv DEF GlobalInit
<1> QED  BY <1>1, GlobalStepIInv, PTL DEF GlobalSpec

(* The flag, libcurl's counter and the copies of it that threads hold keep *)
(* their ranges, for any set of threads.                                   *)
THEOREM TypeCorrect == GlobalSpec => []TypeOK
BY GlobalInvariant, IInvImplies, PTL

(* No API call uses an easy handle of a library that is not set up, unless *)
(* the attempt to set it up has failed.                                    *)
THEOREM ReadyWhenUsed == GlobalSpec => []ReadyInUse
BY GlobalInvariant, IInvImplies, PTL

(* One xvpr_global_release gives back what any number of calls of          *)
(* xvpr_global_init has set up.                                            *)
THEOREM ReleaseIsEnough == GlobalSpec => []ReleaseFreesTheLibrary
BY GlobalInvariant, IInvImplies, PTL
-----------------------------------------------------------------------------
(* The parameter: setparam has written the cells before "copied", the ones *)
(* behind are of the value set last.                                       *)
CellOf(i) ==
  IF setter # NoThread /\ i <= copied THEN Copied(value, i)
                                      ELSE Copied(inForce, i)

ParamTyped ==
  /\ cells \in [1 .. ParamSize[Param] -> ParamChar \cup {ParamNul}]
  /\ setter \in Thread \cup {NoThread}
  /\ value \in Values \cup {DefaultValue}
  /\ inForce \in Values \cup {DefaultValue}
  /\ copied \in 0 .. ParamSize[Param]
  /\ text \in [Thread -> Seq(ParamChar)]
  /\ ended \in [Thread -> BOOLEAN]
  /\ seen \in [Thread -> SUBSET (Values \cup {DefaultValue})]

(* A call has seen whatever may stand in the cells.                        *)
Seen ==
  \A t \in Thread :
    /\ pc[t] = "using" =>
         inForce \in seen[t] /\ (setter # NoThread => value \in seen[t])
    /\ pc[t] # "using" => text[t] = << >> /\ ended[t] = FALSE

PInv ==
  /\ pc \in [Thread -> Places]
  /\ ParamTyped
  /\ \A i \in 1 .. ParamSize[Param] : cells[i] = CellOf(i)
  /\ Seen
  /\ TextIsOfItsValues

(* A step of a thread in GlobalState moves that thread alone, and it comes *)
(* to use an easy handle from outside of that.                             *)
LEMMA StepMovesOne ==
  ASSUME NEW t \in Thread, pc \in [Thread -> Places], Step(t)
  PROVE  /\ pc' \in [Thread -> Places]
         /\ \A u \in Thread \ {t} : pc'[u] = pc[u]
<1>1. PICK p : pc' = [pc EXCEPT ![t] = p] /\ p \in Places
  BY DEF Step, CallInit, TestState, Count, SetUp, SetState, CallApi, EasyInit,
     EasyInitDone, EasyCleanup, CallRelease, TestRelease, Uncount, TearDown,
     Goto, Places, InInit, InEasy, InRelease
<1> QED  BY <1>1
(* What the copy of a value holds: its characters, and no terminator       *)
(* before its end.                                                         *)
LEMMA CopiedIs ==
  ASSUME NEW v \in Values \cup {DefaultValue}, NEW i \in Nat \ {0}
  PROVE  /\ Copied(v, i) \in ParamChar \cup {ParamNul}
         /\ Copied(v, i) # ParamNul => i <= Len(v) /\ Copied(v, i) = v[i]
         /\ Copied(v, i) = ParamNul => Len(v) < i
<1>1. v \in Seq(ParamChar) /\ ParamNul \notin ParamChar
  BY ParamsAssumption, ParamAssumption
<1>2. CASE i <= Len(v)
  <2>1. v[i] \in ParamChar
    BY <1>1, <1>2
  <2> QED  BY <1>1, <1>2, <2>1 DEF Copied
<1>3. CASE ~(i <= Len(v))
  BY <1>1, <1>3 DEF Copied
<1> QED  BY <1>2, <1>3

(* Every parameter's array has room for its terminator.                     *)
LEMMA SizeIsNat == ParamSize[Param] \in Nat \ {0}
BY ParamsAssumption, ParamAssumption

(* The arrays hold the values they are initialised with, and nothing is     *)
(* read yet.                                                                *)
LEMMA InitPInv == GlobalInit => PInv
<1> SUFFICES ASSUME GlobalInit PROVE PInv
  OBVIOUS
<1> USE SizeIsNat
<1>1. ParamTyped
  <2>1. \A i \in 1 .. ParamSize[Param] :
          Copied(DefaultValue, i) \in ParamChar \cup {ParamNul}
    BY CopiedIs
  <2>2. cells \in [1 .. ParamSize[Param] -> ParamChar \cup {ParamNul}]
    BY <2>1 DEF GlobalInit
  <2>3. /\ text \in [Thread -> Seq(ParamChar)]
        /\ seen \in [Thread -> SUBSET (Values \cup {DefaultValue})]
    BY DEF GlobalInit
  <2>4. ended \in [Thread -> BOOLEAN]
    BY DEF GlobalInit
  <2> QED  BY <2>2, <2>3, <2>4 DEF GlobalInit, ParamTyped
<1>2. \A i \in 1 .. ParamSize[Param] : cells[i] = CellOf(i)
  BY DEF GlobalInit, CellOf
<1>3. pc = [t \in Thread |-> "out"] /\ "out" \in Places
  BY DEF GlobalInit, Init, Places
<1>4. Seen
  BY <1>3 DEF GlobalInit, Seen
<1>5. TextIsOfItsValues
  <2>1. \A t \in Thread : text[t] = << >>
    BY DEF GlobalInit
  <2>2. \A t \in Thread : ended[t] = FALSE
    BY DEF GlobalInit
  <2>3. \A i \in DOMAIN << >> : FALSE
    OBVIOUS
  <2> QED  BY <2>1, <2>2, <2>3 DEF TextIsOfItsValues
<1> QED  BY <1>1, <1>2, <1>3, <1>4, <1>5 DEF PInv

(* Setting, formatting and the steps of the library keep the invariant of   *)
(* the parameters.                                                          *)
LEMMA StepPInv == PInv /\ [GlobalNext]_gvars => PInv'
<1> SUFFICES ASSUME PInv, [GlobalNext]_gvars PROVE PInv'
  OBVIOUS
<1> USE SizeIsNat DEF PInv
<1>1. ASSUME NEW t \in Thread, CallSet(t) PROVE PInv'
  <2> USE <1>1 DEF CallSet, vars
  <2>1. ParamTyped'
    BY DEF ParamTyped
  <2>2. \A i \in 1 .. ParamSize[Param] : cells[i]' = CellOf(i)'
    BY DEF ParamTyped, CellOf
  <2>3. Seen'
    BY DEF ParamTyped, Seen
  <2>4. TextIsOfItsValues'
    BY DEF ParamTyped, Seen, TextIsOfItsValues
  <2> QED  BY <2>1, <2>2, <2>3, <2>4
<1>2. CASE CopyCell
  <2> USE <1>2 DEF CopyCell, vars
  <2>1. Copied(value, copied + 1) \in ParamChar \cup {ParamNul}
    <3>1. copied + 1 \in Nat \ {0} /\ value \in Values \cup {DefaultValue}
      BY DEF ParamTyped
    <3> QED  BY <3>1, CopiedIs
  <2>2. ParamTyped'
    BY <2>1 DEF ParamTyped
  <2>3. \A i \in 1 .. ParamSize[Param] : cells[i]' = CellOf(i)'
    BY DEF ParamTyped, CellOf
  <2>4. Seen' /\ TextIsOfItsValues'
    BY DEF Seen, TextIsOfItsValues
  <2> QED  BY <2>2, <2>3, <2>4
<1>3. CASE SetReturns
  <2> USE <1>3 DEF SetReturns, vars
  <2>1. ParamTyped'
    BY DEF ParamTyped
  <2>2. \A i \in 1 .. ParamSize[Param] : cells[i]' = CellOf(i)'
    BY DEF ParamTyped, CellOf
  <2>3. Seen' /\ TextIsOfItsValues'
    BY DEF Seen, TextIsOfItsValues
  <2> QED  BY <2>1, <2>2, <2>3
<1>4. ASSUME NEW t \in Thread, FormatCell(t) PROVE PInv'
  <2> DEFINE k == Len(text[t]) + 1
             c == cells[k]
  <2>1. /\ k \in 1 .. ParamSize[Param]
        /\ text[t] \in Seq(ParamChar)
        /\ pc[t] = "using"
        /\ UNCHANGED <<vars, cells, setter, value, copied, inForce, seen>>
    BY <1>4 DEF FormatCell, ParamTyped
  <2>2. PICK v \in seen[t] :
          v \in Values \cup {DefaultValue} /\ c = Copied(v, k)
    BY <2>1 DEF ParamTyped, Seen, CellOf
  <2>3. /\ c \in ParamChar \cup {ParamNul}
        /\ c # ParamNul => k <= Len(v) /\ c = v[k]
        /\ c = ParamNul => Len(v) < k /\ Len(v) \in Nat
    BY <2>1, <2>2, CopiedIs, ParamsAssumption
  <2>4. CASE c = ParamNul
    <3>1. ended' = [ended EXCEPT ![t] = TRUE] /\ text' = text
      BY <1>4, <2>4 DEF FormatCell
    <3>2. ParamTyped'
      BY <2>1, <3>1 DEF ParamTyped
    <3>3. Seen'
      BY <2>1, <3>1 DEF Seen, ParamTyped, vars
    <3>4. Len(v) <= Len(text[t])
      BY <2>1, <2>3, <2>4
    <3>5. TextIsOfItsValues'
      BY <2>1, <2>2, <3>1, <3>4 DEF TextIsOfItsValues, ParamTyped
    <3> QED  BY <2>1, <3>2, <3>3, <3>5 DEF CellOf, vars
  <2>5. CASE c # ParamNul
    <3>1. text' = [text EXCEPT ![t] = Append(@, c)] /\ ended' = ended
          /\ ended[t] = FALSE
      BY <1>4, <2>5 DEF FormatCell, ParamTyped
    <3>2. Append(text[t], c) \in Seq(ParamChar)
      BY <2>1, <2>3, <2>5
    <3>3. ParamTyped'
      BY <2>1, <3>1, <3>2 DEF ParamTyped
    <3>4. Seen'
      BY <2>1, <3>1 DEF Seen, ParamTyped, vars
    <3>5. \A i \in DOMAIN Append(text[t], c) :
            \E w \in seen[t] : i <= Len(w) /\ Append(text[t], c)[i] = w[i]
      BY <2>1, <2>2, <2>3, <2>5 DEF TextIsOfItsValues
    <3>6. TextIsOfItsValues'
      <4>1. text'[t] = Append(text[t], c)
        BY <3>1 DEF ParamTyped
      <4>2. \A u \in Thread \ {t} : text'[u] = text[u]
        BY <3>1 DEF ParamTyped
      <4>3. ended'[t] = FALSE /\ seen' = seen /\ ended' = ended
        BY <2>1, <3>1
      <4> HIDE DEF c, k
      <4> SUFFICES ASSUME NEW u \in Thread
                   PROVE  /\ \A i \in DOMAIN text'[u] :
                               \E w \in seen'[u] :
                                 i <= Len(w) /\ text'[u][i] = w[i]
                          /\ ended'[u] =>
                               \E w \in seen'[u] : Len(w) <= Len(text'[u])
        BY DEF TextIsOfItsValues
      <4>4. CASE u = t
        BY <3>5, <4>1, <4>3, <4>4
      <4>5. CASE u # t
        <5>1. text'[u] = text[u] /\ seen'[u] = seen[u] /\ ended'[u] = ended[u]
          BY <4>2, <4>3, <4>5
        <5> QED  BY <5>1 DEF TextIsOfItsValues
      <4> QED  BY <4>4, <4>5
    <3> QED  BY <2>1, <3>3, <3>4, <3>6 DEF CellOf, vars
  <2> QED  BY <2>4, <2>5
<1>5. ASSUME NEW t \in Thread, LibraryStep(t) PROVE PInv'
  <2>1. /\ pc' \in [Thread -> Places]
        /\ \A u \in Thread \ {t} : pc'[u] = pc[u]
    BY <1>5, StepMovesOne DEF LibraryStep
  <2>2. /\ text' = [text EXCEPT ![t] = << >>]
        /\ ended' = [ended EXCEPT ![t] = FALSE]
        /\ seen' = [seen EXCEPT ![t] =
                IF pc'[t] # "using" THEN {}
                ELSE {inForce} \cup IF setter = NoThread THEN {} ELSE {value}]
        /\ UNCHANGED <<cells, setter, value, copied, inForce, sets>>
    BY <1>5 DEF LibraryStep
  <2>3. ParamTyped'
    <3>1. << >> \in Seq(ParamChar)
      OBVIOUS
    <3> QED  BY <2>2, <3>1 DEF ParamTyped
  <2>4. Seen'
    BY <2>1, <2>2 DEF Seen, ParamTyped
  <2>5. TextIsOfItsValues'
    BY <2>2 DEF TextIsOfItsValues, ParamTyped
  <2> QED  BY <2>1, <2>2, <2>3, <2>4, <2>5 DEF CellOf
<1>6. CASE UNCHANGED gvars
  BY <1>6 DEF gvars, vars, params, ParamTyped, CellOf, Seen, TextIsOfItsValues
<1> QED
  BY <1>1, <1>2, <1>3, <1>4, <1>5, <1>6 DEF GlobalNext

(* Whatever the values and however many threads set and read: the text a   *)
(* call formats is made of the values that were in force or being set      *)
(* meanwhile, each character at its place, and no shorter than all of them. *)
THEOREM TextsAreOfTheirValues == GlobalSpec => []TextIsOfItsValues
<1>1. PInv => TextIsOfItsValues
  BY DEF PInv
<1> QED  BY <1>1, InitPInv, StepPInv, PTL DEF GlobalSpec
=============================================================================
