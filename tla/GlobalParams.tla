---------------------------- MODULE GlobalParams ----------------------------
(***************************************************************************)
(* GlobalState together with one text parameter (src/src/xbusiness_vpr.c): *)
(* xvpr_global_setparam copies a value to it, character by character, and  *)
(* an API call that has its easy handle formats its URL or body from it,   *)
(* character by character.  There is no lock, and no documentation asks    *)
(* for one: any thread may set while others call.                          *)
(*                                                                         *)
(* One thread sets at a time; values leave room for the terminator (what   *)
(* others do is ParamsInForce of Example.tla).                             *)
(***************************************************************************)
EXTENDS GlobalState, ParamStore

CONSTANTS
  Param,        \* the parameter
  Values,       \* the values it may be set to
  DefaultValue, \* its value at the start
  NoThread,
  MaxSets       \* bound: calls of setparam

ASSUME ParamsAssumption ==
  /\ Param \in TextParams
  /\ Values \cup {DefaultValue} \subseteq Seq(ParamChar)
  /\ \A v \in Values \cup {DefaultValue} : Len(v) < ParamSize[Param]
  /\ NoThread \notin Thread
  /\ MaxSets \in Nat

VARIABLES
  cells,            \* xvpr_param_...
  setter, value,    \* who is in setparam, with which value
  copied,           \* how many cells strncpy has written
  inForce,          \* history: the value set last
  text,             \* what a call's sprintf has read of the parameter
  ended,            \* whether it has read the terminator
  seen,             \* history: the values set or being set since it began
  sets              \* how many calls of setparam were made

params == <<cells, setter, value, copied, inForce, text, ended, seen, sets>>
gvars == <<vars, params>>

GlobalInit ==
  /\ Init
  /\ cells = [i \in 1 .. ParamSize[Param] |-> Copied(DefaultValue, i)]
  /\ setter = NoThread /\ value = DefaultValue /\ copied = 0
  /\ inForce = DefaultValue
  /\ text = [t \in Thread |-> << >>]
  /\ ended = [t \in Thread |-> FALSE]
  /\ seen = [t \in Thread |-> {}]
  /\ sets = 0
-----------------------------------------------------------------------------
CallSet(t) ==
  /\ pc[t] = "out" /\ setter = NoThread
  /\ sets < MaxSets /\ sets' = sets + 1
  /\ \E v \in Values :
       /\ value' = v
       /\ seen' = [u \in Thread |-> IF pc[u] = "using" THEN seen[u] \cup {v}
                                                     ELSE seen[u]]
  /\ setter' = t /\ copied' = 0
  /\ UNCHANGED <<vars, cells, inForce, text, ended>>

(* Variant: nothing behind the value.                                      *)
CopyCellBare ==
  /\ setter # NoThread /\ copied < ParamSize[Param]
  /\ cells' = IF copied < Len(value)
              THEN [cells EXCEPT ![copied + 1] = value[copied + 1]] ELSE cells
  /\ copied' = copied + 1
  /\ UNCHANGED <<vars, setter, value, inForce, text, ended, seen, sets>>

(* strncpy writes the cells in their order.                                *)
CopyCell ==
  /\ setter # NoThread /\ copied < ParamSize[Param]
  /\ cells' = [cells EXCEPT ![copied + 1] = Copied(value, copied + 1)]
  /\ copied' = copied + 1
  /\ UNCHANGED <<vars, setter, value, inForce, text, ended, seen, sets>>

SetReturns ==
  /\ setter # NoThread /\ copied = ParamSize[Param]
  /\ setter' = NoThread
  /\ inForce' = value
  /\ UNCHANGED <<vars, cells, value, copied, text, ended, seen, sets>>

(* sprintf("%s", xvpr_param_...): to the first terminator.                 *)
FormatCell(t) ==
  /\ pc[t] = "using" /\ ~ended[t] /\ Len(text[t]) < ParamSize[Param]
  /\ LET c == cells[Len(text[t]) + 1]
     IN  IF c = ParamNul
         THEN ended' = [ended EXCEPT ![t] = TRUE] /\ UNCHANGED text
         ELSE text' = [text EXCEPT ![t] = Append(@, c)] /\ UNCHANGED ended
  /\ UNCHANGED <<vars, cells, setter, value, copied, inForce, seen, sets>>

(* A step of GlobalState by a thread that is not in setparam.  A call      *)
(* formats between its curl_easy_init and its end.                         *)
LibraryStep(t) ==
  /\ t # setter
  /\ Step(t)
  /\ pc[t] = "using" => ended[t]
  /\ text' = [text EXCEPT ![t] = << >>]
  /\ ended' = [ended EXCEPT ![t] = FALSE]
  /\ seen' = [seen EXCEPT ![t] =
                IF pc'[t] # "using" THEN {}
                ELSE {inForce} \cup IF setter = NoThread THEN {} ELSE {value}]
  /\ UNCHANGED <<cells, setter, value, copied, inForce, sets>>

GlobalNext ==
  \/ \E t \in Thread : CallSet(t) \/ FormatCell(t) \/ LibraryStep(t)
  \/ CopyCell \/ SetReturns

GlobalSpec == GlobalInit /\ [][GlobalNext]_gvars
-----------------------------------------------------------------------------
(* A call that formats its request while another thread sets the parameter *)
(* may use a value that nobody has set, but not any: each character stands *)
(* at its place in a value that was in force meanwhile, and the text is no *)
(* shorter than one of them and no longer than another.  Without a change  *)
(* meanwhile it is the value.                                              *)
TextIsOfItsValues ==
  \A t \in Thread :
    /\ \A i \in DOMAIN text[t] :
         \E v \in seen[t] : i <= Len(v) /\ text[t][i] = v[i]
    /\ ended[t] => \E v \in seen[t] : Len(v) <= Len(text[t])
=============================================================================
